---- MODULE Spec2Model ----
(***************************************************************************)
(* The REST handlers of the finance tracker (Entities, Services, Payees,   *)
(* Subscriptions, EditUser, DeleteUser) as a state machine over the        *)
(* relational store they query.  Each handler is an operator from the      *)
(* store, the Authorization header and the parsed JSON body to the set of  *)
(* outcomes (status, new store, returned rows) its code can produce; one   *)
(* action per handler applies it to a request drawn from bounded sets.     *)
(***************************************************************************)
EXTENDS Integers, FiniteSets, Sequences, TLC

VARIABLES store, before, last, nreq, pending

vars == <<store, before, last, nreq, pending>>

-----------------------------------------------------------------------------
(* Bounds *)

\* highest row id a request body addresses
MaxId == 2
\* number of requests served after the initial store was built
MaxRequests == 1

-----------------------------------------------------------------------------
(* Values *)

\* users.sr of the rows of table users that exist initially
Users == {1, 2}
\* a JSON field that is absent from the body (JavaScript undefined), text-typed
Undef == "undefined"
\* SQL NULL in a text column
Null == "NULL"
\* an absent numeric id in a body, and SQL NULL in an id column (falsy in JS)
NoId == 0
\* the text written by requests into columns no handler inspects
V == "v"
Names == {"a", "b"}
Usernames == {"x", "y"}
\* category values sent by clients
CatIn == {Undef, "Income", "expense", "bogus"}
IdIn == 0..MaxId
\* user_id values sent in the bodies of PUT Payees and PUT Subscriptions
UserIdIn == {NoId, 2}

\* String.prototype.toLowerCase on the strings that occur
ToLower(c) == IF c = "Income" THEN "income" ELSE c

\* JavaScript truthiness of a text field / of a numeric field
Truthy(x) == x # Undef /\ x # Null
TruthyId(i) == i # NoId

-----------------------------------------------------------------------------
(* Authorization headers and tokens *)

\* a signed token and its claims: jwt.verify accepts kind "valid" and throws
\* on "expired", "malformed", "badsig" and on the empty string
Tok(u) == [kind |-> "valid", user_id |-> u, id |-> u]
BadTok(k) == [kind |-> k, user_id |-> NoId, id |-> NoId]

\* the Authorization header: absent, or "<scheme> <token>"
NoHeader == [scheme |-> "none", token |-> BadTok("empty")]
Headers ==
  {NoHeader, [scheme |-> "Basic", token |-> Tok(1)],
   [scheme |-> "Bearer", token |-> BadTok("empty")],
   [scheme |-> "Bearer", token |-> BadTok("expired")],
   [scheme |-> "Bearer", token |-> BadTok("malformed")],
   [scheme |-> "Bearer", token |-> BadTok("badsig")]}
  \cup {[scheme |-> "Bearer", token |-> Tok(u)] : u \in Users}

\* !authHeader || !authHeader.startsWith('Bearer ')
MissingBearer(h) == h.scheme # "Bearer"

\* request.headers.get('Authorization')?.split(' ')[1] is falsy
MissingToken(h) == h.scheme = "none" \/ h.token.kind = "empty"

\* jwt.verify(token, secret) returns the claims; otherwise it throws
JwtVerifies(t) == t.kind = "valid"

\* the request carries a valid Bearer token
ValidBearer(h) == h.scheme = "Bearer" /\ h.token.kind = "valid"

-----------------------------------------------------------------------------
(* The store *)

EmptyStore(cascade) ==
  [users |-> {[sr |-> u, username |-> IF u = 1 THEN "x" ELSE "y", name |-> V,
               email |-> V, phone |-> V, password |-> V] : u \in Users},
   entities |-> {}, services |-> {}, payees |-> {}, subscriptions |-> {},
   nextEntity |-> 1, nextService |-> 1, nextPayee |-> 1, nextSubscription |-> 1,
   fkCascade |-> cascade]

\* an outcome of a handler: the response and the store it leaves
Resp(st, s) == [status |-> st, store |-> s, data |-> {}]
RespData(st, s, rows) == [status |-> st, store |-> s, data |-> rows]

\* a handler whose error escapes: the request ends without a response
CatchNothing(s) == Resp(0, s)

\* } catch (error) { return NextResponse.json({message: 'Something went
\* wrong', ...}, {status: 500}) }: whatever was written before the error stays
CatchAll(s) == Resp(500, s)

\* the rows a SELECT ... LIMIT 1 (or a [[row]] destructuring) may yield: any
\* one of the matching rows, the statement giving no ORDER BY
FirstRow(rows) == rows

\* the joined columns of the list queries
EntityNameOf(s, i) ==
  IF \E e \in s.entities : e.id = i
  THEN (CHOOSE e \in s.entities : e.id = i).entity_name ELSE Null
ServiceNameOf(s, i) ==
  IF \E e \in s.services : e.id = i
  THEN (CHOOSE e \in s.services : e.id = i).service_name ELSE Null
PayeeNameOf(s, i) ==
  IF \E e \in s.payees : e.id = i
  THEN (CHOOSE e \in s.payees : e.id = i).payee_name ELSE Null
JoinedId(rows, i) == IF \E e \in rows : e.id = i THEN i ELSE NoId

\* a store whose foreign keys do not cascade from entities
SqlDeleteEntitiesAlone(s, ids) == [s EXCEPT !.entities = {r \in @ : r.id \notin ids}]

\* DELETE FROM entities WHERE id IN ids: with ON DELETE CASCADE foreign keys
\* the store also removes the rows that reference the deleted rows
SqlDeleteEntities(s, ids) ==
  LET svc == IF s.fkCascade THEN {r.id : r \in {x \in s.services : x.entity_id \in ids}}
             ELSE {}
      pay == IF s.fkCascade
             THEN {r.id : r \in {x \in s.payees : x.entity_id \in ids
                                                   \/ x.service_id \in svc}}
             ELSE {}
      hit(r) == s.fkCascade /\ (r.entity_id \in ids \/ r.service_id \in svc)
  IN [s EXCEPT !.entities = {r \in @ : r.id \notin ids},
               !.services = {r \in @ : ~(s.fkCascade /\ r.entity_id \in ids)},
               !.payees = {r \in @ : ~hit(r)},
               !.subscriptions = {r \in @ : ~(hit(r) \/ r.payee_id \in pay)}]

\* DELETE FROM services WHERE id IN ids, with the same cascade
SqlDeleteServices(s, ids) ==
  LET pay == IF s.fkCascade THEN {r.id : r \in {x \in s.payees : x.service_id \in ids}}
             ELSE {}
      hit(r) == s.fkCascade /\ r.service_id \in ids
  IN [s EXCEPT !.services = {r \in @ : r.id \notin ids},
               !.payees = {r \in @ : ~hit(r)},
               !.subscriptions = {r \in @ : ~(hit(r) \/ r.payee_id \in pay)}]

\* DELETE FROM payees WHERE id IN ids, with the same cascade
SqlDeletePayees(s, ids) ==
  [s EXCEPT !.payees = {r \in @ : r.id \notin ids},
            !.subscriptions = {r \in @ : ~(s.fkCascade /\ r.payee_id \in ids)}]

-----------------------------------------------------------------------------
(* Entities *)

EntityPostBodies ==
  [entity_name : Names \cup {Undef}, entity_desc : {V, Undef},
   entity_short_desc : {V, Undef}, category : CatIn]
EntityPutBodies ==
  [id : IdIn, entity_name : Names \cup {Undef}, entity_desc : {V, Undef},
   entity_short_desc : {V, Undef}, category : CatIn]
EntityDeleteBodies == [entity_id : IdIn]

GetEntities(s, h) ==
  IF MissingBearer(h) THEN {Resp(401, s)}
  ELSE IF ~JwtVerifies(h.token) THEN {CatchAll(s)}
  ELSE
    LET rows == {[e EXCEPT !.user_id = u.sr] @@ [username |-> u.username] :
                   <<e, u>> \in {p \in s.entities \X s.users :
                                   p[1].user_id = p[2].sr /\ p[2].sr = h.token.user_id}}
    IN IF rows = {} THEN {Resp(404, s)} ELSE {RespData(200, s, rows)}

\* an insert that binds the category as it was sent
EntityRowRawCategory(s, user_id, b) ==
  [id |-> s.nextEntity, user_id |-> user_id, entity_name |-> b.entity_name,
   entity_desc |-> b.entity_desc, entity_short_desc |-> b.entity_short_desc,
   category |-> b.category]

\* the row INSERT INTO entities writes, with result.insertId as its id, which
\* the response echoes as data
EntityRow(s, user_id, b) ==
  [id |-> s.nextEntity, user_id |-> user_id, entity_name |-> b.entity_name,
   entity_desc |-> b.entity_desc, entity_short_desc |-> b.entity_short_desc,
   category |-> ToLower(b.category)]

PostEntities(s, h, b) ==
  IF MissingBearer(h) THEN {Resp(401, s)}
  ELSE IF ~JwtVerifies(h.token) THEN {CatchAll(s)}
  ELSE IF ~Truthy(b.entity_name) \/ ~Truthy(b.entity_desc)
          \/ ~Truthy(b.entity_short_desc) \/ ~Truthy(b.category)
    THEN {Resp(400, s)}
  ELSE IF ToLower(b.category) \notin {"income", "expense"} THEN {Resp(400, s)}
  ELSE
    LET row == EntityRow(s, h.token.user_id, b)
    IN {RespData(201, [s EXCEPT !.entities = @ \cup {row}, !.nextEntity = @ + 1],
                 {row})}

\* an ownership check that forgets the owner
ExistingEntityOfAnyone(s, id, user_id) == {e \in s.entities : e.id = id}

\* SELECT * FROM entities WHERE id = ? AND user_id = ?
ExistingEntity(s, id, user_id) == {e \in s.entities : e.id = id /\ e.user_id = user_id}

\* an update that falls back to the columns of the row it updates
EntityUpdatedFromStoredRow(e, b, ex) ==
  [e EXCEPT !.entity_name = IF Truthy(b.entity_name) THEN b.entity_name ELSE e.entity_name,
            !.entity_desc = IF Truthy(b.entity_desc) THEN b.entity_desc ELSE e.entity_desc,
            !.entity_short_desc = IF Truthy(b.entity_short_desc) THEN b.entity_short_desc
                                  ELSE e.entity_short_desc,
            !.category = IF Truthy(b.category) THEN ToLower(b.category) ELSE e.category]

\* the row UPDATE entities SET ... leaves of row e: each column is the
\* body's value or, when that is falsy, the value of existingEntity[0] (ex)
EntityUpdated(e, b, ex) ==
  [e EXCEPT !.entity_name = IF Truthy(b.entity_name) THEN b.entity_name ELSE ex.entity_name,
            !.entity_desc = IF Truthy(b.entity_desc) THEN b.entity_desc ELSE ex.entity_desc,
            !.entity_short_desc = IF Truthy(b.entity_short_desc) THEN b.entity_short_desc
                                  ELSE ex.entity_short_desc,
            !.category = IF Truthy(b.category) THEN ToLower(b.category) ELSE ex.category]

PutEntities(s, h, b) ==
  IF MissingBearer(h) THEN {Resp(401, s)}
  ELSE IF ~JwtVerifies(h.token) THEN {CatchAll(s)}
  ELSE IF ~TruthyId(b.id) \/ ~Truthy(b.entity_name) \/ ~Truthy(b.entity_desc)
          \/ ~Truthy(b.entity_short_desc)
    THEN {Resp(400, s)}
  ELSE IF Truthy(b.category) /\ ToLower(b.category) \notin {"income", "expense"}
    THEN {Resp(400, s)}
  ELSE
    LET user_id == h.token.user_id
        existingEntity == ExistingEntity(s, b.id, user_id)
    IN IF existingEntity = {} THEN {Resp(404, s)}
       ELSE
         {Resp(200,
               [s EXCEPT !.entities =
                  {IF e.id = b.id /\ e.user_id = user_id
                   THEN EntityUpdated(e, b, ex) ELSE e : e \in @}])
            : ex \in FirstRow(existingEntity)}

\* a cascade that forgets the subscriptions
EntityCascadeKeepsSubscriptions(s, entity_id, user_id) ==
  LET s1 == SqlDeleteServices(s, {r.id : r \in {x \in s.services :
                                                  x.entity_id = entity_id}})
      s2 == SqlDeletePayees(s1, {r.id : r \in {x \in s1.payees :
                                              x.entity_id = entity_id}})
  IN SqlDeleteEntities(s2, {e.id : e \in {x \in s2.entities :
                                            x.id = entity_id /\ x.user_id = user_id}})

\* the four DELETE statements of the manual cascade, in their order
EntityCascade(s, entity_id, user_id) ==
  LET s1 == SqlDeleteServices(s, {r.id : r \in {x \in s.services :
                                                  x.entity_id = entity_id}})
      s2 == SqlDeletePayees(s1, {r.id : r \in {x \in s1.payees :
                                              x.entity_id = entity_id}})
      s3 == [s2 EXCEPT !.subscriptions = {r \in @ : r.entity_id # entity_id}]
  IN SqlDeleteEntities(s3, {e.id : e \in {x \in s3.entities :
                                            x.id = entity_id /\ x.user_id = user_id}})

\* a handler that undoes its statements when a later one fails
EntityCascadeRolledBack(s, entity_id, user_id, k) == s

\* the store after the first k of the four DELETE statements
EntityCascadeUpTo(s, entity_id, user_id, k) ==
  LET s1 == SqlDeleteServices(s, {r.id : r \in {x \in s.services :
                                                  x.entity_id = entity_id}})
      s2 == SqlDeletePayees(s1, {r.id : r \in {x \in s1.payees :
                                              x.entity_id = entity_id}})
      s3 == [s2 EXCEPT !.subscriptions = {r \in @ : r.entity_id # entity_id}]
  IN CASE k = 0 -> s
       [] k = 1 -> s1
       [] k = 2 -> s2
       [] k = 3 -> s3
       [] OTHER -> EntityCascade(s, entity_id, user_id)

\* the manual cascade of the combined handlers file
DeleteEntities(s, h, b) ==
  IF MissingBearer(h) THEN {Resp(401, s)}
  ELSE IF ~JwtVerifies(h.token) THEN {CatchAll(s)}
  ELSE IF ~TruthyId(b.entity_id) THEN {Resp(400, s)}
  ELSE
    LET user_id == h.token.user_id
        existingEntity == {e \in s.entities : e.id = b.entity_id /\ e.user_id = user_id}
    IN IF existingEntity = {} THEN {Resp(404, s)}
       ELSE {Resp(200, EntityCascade(s, b.entity_id, user_id))}

\* the single DELETE statement of the entities route, which leaves the
\* dependents to the foreign keys of the schema
DeleteEntitiesSingle(s, h, b) ==
  IF MissingBearer(h) THEN {Resp(401, s)}
  ELSE IF ~JwtVerifies(h.token) THEN {CatchAll(s)}
  ELSE IF ~TruthyId(b.entity_id) THEN {Resp(400, s)}
  ELSE
    LET userId == h.token.user_id
        entity == {e \in s.entities : e.id = b.entity_id /\ e.user_id = userId}
    IN IF entity = {} THEN {Resp(404, s)}
       ELSE {Resp(200, SqlDeleteEntities(s, {b.entity_id}))}

-----------------------------------------------------------------------------
(* Services *)

\* payloads of the columns no handler inspects: all present, or one absent
Payload3 == {<<V, V, V>>, <<Undef, V, V>>, <<V, Undef, V>>, <<V, V, Undef>>}
Payload4 == {<<V, V, V, V>>, <<Undef, V, V, V>>, <<V, Undef, V, V>>,
             <<V, V, Undef, V>>, <<V, V, V, Undef>>}
\* the same for the updates that bind every column without reading it
PutPayload3 == {<<V, V, V>>, <<V, V, Undef>>}
PutPayload4 == {<<V, V, V, V>>, <<V, V, Undef, V>>}

ServicePostBodies ==
  {[service_name |-> sn, service_desc |-> p[1], entity_name |-> en,
    min_duration |-> p[2], amount |-> p[3], category |-> c] :
     sn \in Names \cup {Undef}, en \in Names \cup {Undef}, p \in Payload3, c \in CatIn}
ServicePutBodies ==
  {[id |-> i, entity_name |-> en, service_name |-> sn, service_desc |-> p[1],
    min_duration |-> p[2], amount |-> p[3], category |-> c] :
     i \in IdIn, sn \in Names \cup {Undef}, en \in Names \cup {Undef}, p \in Payload3,
     c \in CatIn}
IdBodies == [id : IdIn]

\* the ids a lookup by name may yield
EntityIdsByName(s, n) == {e.id : e \in {x \in s.entities : x.entity_name = n}}
ServiceIdsByName(s, n) == {e.id : e \in {x \in s.services : x.service_name = n}}
PayeeIdsByName(s, n) == {e.id : e \in {x \in s.payees : x.payee_name = n}}

GetServices(s, h) ==
  IF MissingBearer(h) THEN {Resp(401, s)}
  ELSE IF ~JwtVerifies(h.token) THEN {CatchAll(s)}
  ELSE
    LET rows == {[e EXCEPT !.user_id = u.sr, !.entity_id = JoinedId(s.entities, e.entity_id)]
                   @@ [username |-> u.username,
                       entity_name |-> EntityNameOf(s, e.entity_id)] :
                   <<e, u>> \in {p \in s.services \X s.users :
                                   p[1].user_id = p[2].sr /\ p[2].sr = h.token.user_id}}
    IN IF rows = {} THEN {Resp(404, s)} ELSE {RespData(200, s, rows)}

\* a validator that forgets the amount
ServicePostInvalidButAmount(b) ==
  \/ ~Truthy(b.service_name) \/ ~Truthy(b.service_desc) \/ ~Truthy(b.min_duration)
  \/ ~Truthy(b.category) \/ ~Truthy(b.entity_name)

\* !service_name || !service_desc || !min_duration || !amount || !category
\* || !entity_name
ServicePostInvalid(b) ==
  \/ ~Truthy(b.service_name) \/ ~Truthy(b.service_desc) \/ ~Truthy(b.min_duration)
  \/ ~Truthy(b.amount) \/ ~Truthy(b.category) \/ ~Truthy(b.entity_name)

\* a lookup confined to the entities of the requesting user
EntityLookupOwned(s, n, user_id) ==
  {e.id : e \in {x \in s.entities : x.entity_name = n /\ x.user_id = user_id}}

\* SELECT id FROM entities WHERE entity_name = ? of the request of user_id:
\* the statement does not mention the user
EntityLookup(s, n, user_id) == EntityIdsByName(s, n)

PostServices(s, h, b) ==
  IF MissingBearer(h) THEN {Resp(401, s)}
  ELSE IF ~JwtVerifies(h.token) THEN {CatchAll(s)}
  ELSE IF ServicePostInvalid(b) THEN {Resp(400, s)}
  ELSE IF ToLower(b.category) \notin {"income", "expense"} THEN {Resp(400, s)}
  ELSE
    LET entityRows == EntityLookup(s, b.entity_name, h.token.user_id)
        row(entity_id) ==
          [id |-> s.nextService, user_id |-> h.token.user_id, entity_id |-> entity_id,
           service_name |-> b.service_name, service_desc |-> b.service_desc,
           min_duration |-> b.min_duration, amount |-> b.amount,
           category |-> ToLower(b.category)]
    IN IF entityRows = {} THEN {Resp(404, s)}
       ELSE {RespData(201, [s EXCEPT !.services = @ \cup {row(entity_id)},
                                     !.nextService = @ + 1],
                      {row(entity_id)}) : entity_id \in FirstRow(entityRows)}

\* the row UPDATE services SET ... leaves of row e: each column is the
\* body's value or, when that is falsy, the value of existingService[0] (ex)
ServiceUpdated(e, b, ex) ==
  LET or(x, y) == IF Truthy(x) THEN x ELSE y
  IN [e EXCEPT !.service_name = or(b.service_name, ex.service_name),
               !.service_desc = or(b.service_desc, ex.service_desc),
               !.min_duration = or(b.min_duration, ex.min_duration),
               !.amount = or(b.amount, ex.amount),
               !.category = IF Truthy(b.category) THEN ToLower(b.category)
                            ELSE ex.category]

PutServices(s, h, b) ==
  IF MissingBearer(h) THEN {Resp(401, s)}
  ELSE IF ~JwtVerifies(h.token) THEN {CatchAll(s)}
  ELSE IF ~TruthyId(b.id) \/ ~Truthy(b.entity_name) THEN {Resp(400, s)}
  ELSE IF Truthy(b.category) /\ ToLower(b.category) \notin {"income", "expense"}
    THEN {Resp(400, s)}
  ELSE
    LET user_id == h.token.user_id
        entityRows == EntityIdsByName(s, b.entity_name)
        match(e, entity_id) == e.id = b.id /\ e.user_id = user_id /\ e.entity_id = entity_id
        updated(entity_id, ex) ==
          [s EXCEPT !.services =
             {IF match(e, entity_id) THEN ServiceUpdated(e, b, ex) ELSE e : e \in @}]
    IN IF entityRows = {} THEN {Resp(404, s)}
       ELSE UNION {
              LET existingService == {e \in s.services : match(e, entity_id)}
              IN IF existingService = {} THEN {Resp(404, s)}
                 ELSE {Resp(200, updated(entity_id, ex)) : ex \in FirstRow(existingService)}
              : entity_id \in FirstRow(entityRows)}

\* a cascade that forgets the payees
ServiceCascadeKeepsPayees(s, id, user_id) ==
  LET s2 == [s EXCEPT !.subscriptions = {r \in @ : r.service_id # id}]
  IN SqlDeleteServices(s2, {e.id : e \in {x \in s2.services :
                                            x.id = id /\ x.user_id = user_id}})

\* the three DELETE statements of the manual cascade, in their order
ServiceCascade(s, id, user_id) ==
  LET s1 == SqlDeletePayees(s, {r.id : r \in {x \in s.payees : x.service_id = id}})
      s2 == [s1 EXCEPT !.subscriptions = {r \in @ : r.service_id # id}]
  IN SqlDeleteServices(s2, {e.id : e \in {x \in s2.services :
                                            x.id = id /\ x.user_id = user_id}})

\* the store after the first k of the three DELETE statements
ServiceCascadeUpTo(s, id, user_id, k) ==
  LET s1 == SqlDeletePayees(s, {r.id : r \in {x \in s.payees : x.service_id = id}})
      s2 == [s1 EXCEPT !.subscriptions = {r \in @ : r.service_id # id}]
  IN CASE k = 0 -> s
       [] k = 1 -> s1
       [] k = 2 -> s2
       [] OTHER -> ServiceCascade(s, id, user_id)

\* the manual cascade of the combined handlers file
DeleteServices(s, h, b) ==
  IF MissingBearer(h) THEN {Resp(401, s)}
  ELSE IF ~JwtVerifies(h.token) THEN {CatchAll(s)}
  ELSE IF ~TruthyId(b.id) THEN {Resp(400, s)}
  ELSE
    LET user_id == h.token.user_id
        existingService == {e \in s.services : e.id = b.id /\ e.user_id = user_id}
    IN IF existingService = {} THEN {Resp(404, s)}
       ELSE {Resp(200, ServiceCascade(s, b.id, user_id))}

\* the single DELETE statement of the services route
DeleteServicesSingle(s, h, b) ==
  IF MissingBearer(h) THEN {Resp(401, s)}
  ELSE IF ~JwtVerifies(h.token) THEN {CatchAll(s)}
  ELSE IF ~TruthyId(b.id) THEN {Resp(400, s)}
  ELSE
    LET userId == h.token.user_id
        service == {e \in s.services : e.id = b.id /\ e.user_id = userId}
    IN IF service = {} THEN {Resp(404, s)}
       ELSE {Resp(200, SqlDeleteServices(s, {b.id}))}

-----------------------------------------------------------------------------
(* Payees *)

\* a resolver that never reports a supplied name as unknown
NameNotFoundIgnored(name, ids) == FALSE

\* if (name) { const [[row]] = SELECT id ... WHERE name = ?; if (!row) return 404 }
NameNotFound(name, ids) == Truthy(name) /\ ids = {}

\* the id an update binds for a name: the resolved row's id, or null
ResolvedId(name, ids) == IF Truthy(name) /\ ids # {} THEN FirstRow(ids) ELSE {NoId}

\* what db.execute does with a bind parameter that is undefined: the driver
\* either rejects the statement (the handler answers 500) or binds SQL NULL
BindUndefined == {"throw", "null"}
Bound(x) == IF x = Undef THEN Null ELSE x

PayeePostBodies ==
  {[entity_name |-> en, service_name |-> sn, payee_name |-> pn, phone |-> p[1],
    email |-> p[2], amount |-> p[3], category |-> c] :
     en \in Names \cup {Undef}, sn \in Names \cup {Undef}, pn \in Names \cup {Undef},
     p \in Payload3, c \in CatIn}
PayeePutBodies ==
  {[id |-> i, user_id |-> u, entity_name |-> en, service_name |-> sn,
    payee_name |-> pn, phone |-> p[1], email |-> p[2], amount |-> p[3],
    category |-> c] :
     i \in IdIn, u \in UserIdIn, en \in Names \cup {Undef},
     sn \in Names \cup {Undef}, pn \in Names \cup {Undef}, p \in PutPayload3,
     c \in CatIn}

\* the join without its WHERE clause
PayeesJoinUsersOfAnyone(s, user_id) ==
  {p \in s.payees \X s.users : p[1].user_id = p[2].sr}

\* FROM payees JOIN users ON payees.user_id = users.sr WHERE users.sr = ?
PayeesJoinUsers(s, user_id) ==
  {p \in s.payees \X s.users : p[1].user_id = p[2].sr /\ p[2].sr = user_id}

GetPayees(s, h) ==
  IF MissingBearer(h) THEN {Resp(401, s)}
  ELSE IF ~JwtVerifies(h.token) THEN {CatchAll(s)}
  ELSE
    LET rows == {[e EXCEPT !.user_id = u.sr, !.entity_id = JoinedId(s.entities, e.entity_id),
                           !.service_id = JoinedId(s.services, e.service_id)]
                   @@ [username |-> u.username,
                       entity_name |-> EntityNameOf(s, e.entity_id),
                       service_name |-> ServiceNameOf(s, e.service_id)] :
                   <<e, u>> \in PayeesJoinUsers(s, h.token.user_id)}
    IN IF rows = {} THEN {Resp(404, s)} ELSE {RespData(200, s, rows)}

PostPayees(s, h, b) ==
  IF MissingBearer(h) THEN {Resp(401, s)}
  ELSE IF ~JwtVerifies(h.token) THEN {CatchAll(s)}
  ELSE IF ~Truthy(b.entity_name) \/ ~Truthy(b.service_name) \/ ~Truthy(b.payee_name)
          \/ ~Truthy(b.phone) \/ ~Truthy(b.email) \/ ~Truthy(b.amount)
          \/ ~Truthy(b.category)
    THEN {Resp(400, s)}
  ELSE
    LET entity == EntityIdsByName(s, b.entity_name)
        service == ServiceIdsByName(s, b.service_name)
        row(e, v) ==
          [id |-> s.nextPayee, user_id |-> h.token.user_id, entity_id |-> e,
           service_id |-> v, payee_name |-> b.payee_name, phone |-> b.phone,
           email |-> b.email, amount |-> b.amount, category |-> b.category]
    IN IF entity = {} \/ service = {} THEN {Resp(404, s)}
       ELSE {Resp(201, [s EXCEPT !.payees = @ \cup {row(e, v)}, !.nextPayee = @ + 1]) :
               e \in FirstRow(entity), v \in FirstRow(service)}

PutPayees(s, h, b) ==
  IF MissingBearer(h) THEN {Resp(401, s)}
  ELSE IF ~JwtVerifies(h.token) THEN {CatchAll(s)}
  ELSE IF ~TruthyId(b.id) THEN {Resp(400, s)}
  ELSE
    LET userId == h.token.user_id
        resolvedUserId == IF TruthyId(b.user_id) THEN b.user_id ELSE userId
        entity == EntityIdsByName(s, b.entity_name)
        service == ServiceIdsByName(s, b.service_name)
        undefinedParam == Undef \in {b.payee_name, b.phone, b.email, b.amount, b.category}
        updated(entityId, serviceId) ==
          [s EXCEPT !.payees =
             {IF e.id = b.id
              THEN [e EXCEPT !.user_id = resolvedUserId, !.entity_id = entityId,
                             !.service_id = serviceId,
                             !.payee_name = Bound(b.payee_name), !.phone = Bound(b.phone),
                             !.email = Bound(b.email), !.amount = Bound(b.amount),
                             !.category = Bound(b.category)]
              ELSE e : e \in @}]
    IN IF NameNotFound(b.entity_name, entity) THEN {Resp(404, s)}
       ELSE IF NameNotFound(b.service_name, service) THEN {Resp(404, s)}
       ELSE UNION {
              IF undefinedParam /\ drv = "throw" THEN {CatchAll(s)}
              ELSE {Resp(200, updated(entityId, serviceId)) :
                      entityId \in ResolvedId(b.entity_name, entity),
                      serviceId \in ResolvedId(b.service_name, service)}
              : drv \in IF undefinedParam THEN BindUndefined ELSE {"null"}}

\* a delete that forgets the subscriptions
PayeeCascadeKeepsSubscriptions(s, id, userId) ==
  [s EXCEPT !.payees = {r \in @ : ~(r.id = id /\ r.user_id = userId)}]

\* the two DELETE statements: the payee's subscriptions, then the payee
PayeeCascade(s, id, userId) ==
  LET s1 == [s EXCEPT !.subscriptions = {r \in @ : r.payee_id # id}]
  IN SqlDeletePayees(s1, {r.id : r \in {x \in s1.payees :
                                           x.id = id /\ x.user_id = userId}})

\* the store after the first k of the two DELETE statements
PayeeCascadeUpTo(s, id, userId, k) ==
  CASE k = 0 -> s
    [] k = 1 -> [s EXCEPT !.subscriptions = {r \in @ : r.payee_id # id}]
    [] OTHER -> PayeeCascade(s, id, userId)

\* an ownership check that forgets the owner
ExistingPayeeOfAnyone(s, id, userId) == {e \in s.payees : e.id = id}

\* SELECT id FROM payees WHERE id = ? AND user_id = ?
ExistingPayee(s, id, userId) == {e \in s.payees : e.id = id /\ e.user_id = userId}

DeletePayees(s, h, b) ==
  IF MissingBearer(h) THEN {Resp(401, s)}
  ELSE IF ~JwtVerifies(h.token) THEN {CatchAll(s)}
  ELSE IF ~TruthyId(b.id) THEN {Resp(400, s)}
  ELSE
    LET userId == h.token.user_id
        payee == ExistingPayee(s, b.id, userId)
    IN IF payee = {} THEN {Resp(404, s)} ELSE {Resp(200, PayeeCascade(s, b.id, userId))}

-----------------------------------------------------------------------------
(* Subscriptions *)

SubscriptionPostBodies ==
  {[entity_name |-> en, service_name |-> sn, payee_name |-> pn, startDate |-> p[1],
    endDate |-> p[2], amount |-> p[3], paymentDate |-> p[4], category |-> c] :
     en \in Names \cup {Undef}, sn \in Names \cup {Undef}, pn \in Names \cup {Undef},
     p \in Payload4, c \in CatIn}
SubscriptionPutBodies ==
  {[id |-> i, user_id |-> u, entity_name |-> en, service_name |-> sn,
    payee_name |-> pn, startDate |-> p[1], endDate |-> p[2], amount |-> p[3],
    paymentDate |-> p[4], category |-> c] :
     i \in IdIn, u \in UserIdIn, en \in Names \cup {Undef},
     sn \in Names \cup {Undef}, pn \in Names \cup {Undef}, p \in PutPayload4,
     c \in CatIn}

GetSubscriptions(s, h) ==
  IF MissingBearer(h) THEN {Resp(401, s)}
  ELSE IF ~JwtVerifies(h.token) THEN {CatchAll(s)}
  ELSE
    LET rows == {[e EXCEPT !.user_id = u.sr, !.entity_id = JoinedId(s.entities, e.entity_id),
                           !.service_id = JoinedId(s.services, e.service_id)]
                   @@ [username |-> u.username,
                       entity_name |-> EntityNameOf(s, e.entity_id),
                       service_name |-> ServiceNameOf(s, e.service_id),
                       payee_name |-> PayeeNameOf(s, e.payee_id)] :
                   <<e, u>> \in {p \in s.subscriptions \X s.users :
                                   p[1].user_id = p[2].sr /\ p[2].sr = h.token.user_id}}
    IN IF rows = {} THEN {Resp(404, s)} ELSE {RespData(200, s, rows)}

PostSubscriptions(s, h, b) ==
  IF MissingBearer(h) THEN {Resp(401, s)}
  ELSE IF ~JwtVerifies(h.token) THEN {CatchAll(s)}
  ELSE IF ~Truthy(b.entity_name) \/ ~Truthy(b.service_name) \/ ~Truthy(b.payee_name)
          \/ ~Truthy(b.startDate) \/ ~Truthy(b.endDate) \/ ~Truthy(b.amount)
          \/ ~Truthy(b.paymentDate) \/ ~Truthy(b.category)
    THEN {Resp(400, s)}
  ELSE
    LET entity == EntityIdsByName(s, b.entity_name)
        service == ServiceIdsByName(s, b.service_name)
        payee == PayeeIdsByName(s, b.payee_name)
        row(e, v, p) ==
          [id |-> s.nextSubscription, user_id |-> h.token.user_id, entity_id |-> e,
           service_id |-> v, payee_id |-> p, startDate |-> b.startDate,
           endDate |-> b.endDate, amount |-> b.amount, paymentDate |-> b.paymentDate,
           category |-> b.category]
    IN IF entity = {} \/ service = {} \/ payee = {} THEN {Resp(404, s)}
       ELSE {Resp(201, [s EXCEPT !.subscriptions = @ \cup {row(e, v, p)},
                                 !.nextSubscription = @ + 1]) :
               e \in FirstRow(entity), v \in FirstRow(service), p \in FirstRow(payee)}

PutSubscriptions(s, h, b) ==
  IF MissingBearer(h) THEN {Resp(401, s)}
  ELSE IF ~JwtVerifies(h.token) THEN {CatchAll(s)}
  ELSE IF ~TruthyId(b.id) THEN {Resp(400, s)}
  ELSE
    LET resolvedUserId == IF TruthyId(b.user_id) THEN b.user_id ELSE h.token.user_id
        entity == EntityIdsByName(s, b.entity_name)
        service == ServiceIdsByName(s, b.service_name)
        payee == PayeeIdsByName(s, b.payee_name)
        undefinedParam ==
          Undef \in {b.startDate, b.endDate, b.amount, b.paymentDate, b.category}
        updated(entityId, serviceId, payeeId) ==
          [s EXCEPT !.subscriptions =
             {IF e.id = b.id
              THEN [e EXCEPT !.user_id = resolvedUserId, !.entity_id = entityId,
                             !.service_id = serviceId, !.payee_id = payeeId,
                             !.startDate = Bound(b.startDate),
                             !.endDate = Bound(b.endDate), !.amount = Bound(b.amount),
                             !.paymentDate = Bound(b.paymentDate),
                             !.category = Bound(b.category)]
              ELSE e : e \in @}]
    IN IF NameNotFound(b.entity_name, entity) THEN {Resp(404, s)}
       ELSE IF NameNotFound(b.service_name, service) THEN {Resp(404, s)}
       ELSE IF NameNotFound(b.payee_name, payee) THEN {Resp(404, s)}
       ELSE UNION {
              IF undefinedParam /\ drv = "throw" THEN {CatchAll(s)}
              ELSE {Resp(200, updated(entityId, serviceId, payeeId)) :
                      entityId \in ResolvedId(b.entity_name, entity),
                      serviceId \in ResolvedId(b.service_name, service),
                      payeeId \in ResolvedId(b.payee_name, payee)}
              : drv \in IF undefinedParam THEN BindUndefined ELSE {"null"}}

DeleteSubscriptions(s, h, b) ==
  IF MissingBearer(h) THEN {Resp(401, s)}
  ELSE IF ~JwtVerifies(h.token) THEN {CatchAll(s)}
  ELSE IF ~TruthyId(b.id) THEN {Resp(400, s)}
  ELSE
    LET userId == h.token.user_id
        subscription == {e \in s.subscriptions : e.id = b.id /\ e.user_id = userId}
    IN IF subscription = {} THEN {Resp(404, s)}
       ELSE {Resp(200, [s EXCEPT !.subscriptions =
                          {r \in @ : ~(r.id = b.id /\ r.user_id = userId)}])}

-----------------------------------------------------------------------------
(* Users *)

UserPutBodies ==
  {[name |-> p[1], email |-> p[2], phone |-> p[3], username |-> un, password |-> p[4]] :
     un \in Usernames \cup {Undef}, p \in Payload4}

\* a conflict check that forgets to leave out the caller's own row
UsernameTakenByAnyone(s, username, userId) ==
  {u \in s.users : u.username = username}

\* SELECT * FROM users WHERE username = ? AND sr != ?
UsernameTaken(s, username, userId) ==
  {u \in s.users : u.username = username /\ u.sr # userId}

\* a conflict detected after the UPDATE has run
UsernameConflictAfterUpdate(s, updated) == Resp(409, updated)

\* if (existingUser.length > 0) return 409, before the UPDATE
UsernameConflict(s, updated) == Resp(409, s)

EditUser(s, h, b) ==
  IF MissingToken(h) THEN {Resp(401, s)}
  ELSE IF ~JwtVerifies(h.token) THEN {CatchAll(s)}
  ELSE
    LET userId == h.token.id
        existingUser == UsernameTaken(s, b.username, userId)
        undefinedParam ==
          Undef \in {b.name, b.email, b.phone, b.username, b.password}
        affectedRows == Cardinality({u \in s.users : u.sr = userId})
        updated ==
          [s EXCEPT !.users =
             {IF u.sr = userId
              THEN [u EXCEPT !.name = Bound(b.name), !.email = Bound(b.email),
                             !.phone = Bound(b.phone), !.username = Bound(b.username),
                             !.password = Bound(b.password)]
              ELSE u : u \in @}]
    IN UNION {
         IF b.username = Undef /\ drv = "throw" THEN {CatchAll(s)}
         ELSE IF existingUser # {} THEN {UsernameConflict(s, updated)}
         ELSE IF undefinedParam /\ drv = "throw" THEN {CatchAll(s)}
         ELSE IF affectedRows = 0 THEN {Resp(404, updated)}
         ELSE {Resp(200, updated)}
         : drv \in IF undefinedParam THEN BindUndefined ELSE {"null"}}

DeleteUser(s, h) ==
  IF MissingToken(h) THEN {Resp(401, s)}
  ELSE IF ~JwtVerifies(h.token) THEN {CatchAll(s)}
  ELSE
    LET userId == h.token.id
        affectedRows == Cardinality({u \in s.users : u.sr = userId})
        deleted == [s EXCEPT !.users = {u \in @ : u.sr # userId}]
    IN IF affectedRows = 0 THEN {Resp(404, deleted)} ELSE {Resp(200, deleted)}

-----------------------------------------------------------------------------
(* What a request asks for, read off the body and the store before it *)

PostPutOps == {"PostEntities", "PutEntities", "PostServices", "PutServices",
               "PostPayees", "PutPayees", "PostSubscriptions", "PutSubscriptions"}

\* the fields each validator's message names as mandatory
RequiredFields(op) ==
  CASE op = "PostEntities" -> {"entity_name", "entity_desc", "entity_short_desc", "category"}
    [] op = "PutEntities" -> {"id", "entity_name", "entity_desc", "entity_short_desc"}
    [] op = "PostServices" -> {"service_name", "service_desc", "min_duration", "amount",
                               "category", "entity_name"}
    [] op = "PutServices" -> {"id", "entity_name"}
    [] op = "PostPayees" -> {"entity_name", "service_name", "payee_name", "phone", "email",
                             "amount", "category"}
    [] op = "PutPayees" -> {"id"}
    [] op = "PostSubscriptions" -> {"entity_name", "service_name", "payee_name",
                                    "startDate", "endDate", "amount", "paymentDate",
                                    "category"}
    [] op = "PutSubscriptions" -> {"id"}
    [] op \in {"DeleteServices", "DeleteServicesSingle", "DeletePayees",
               "DeleteSubscriptions"} -> {"id"}
    [] op \in {"DeleteEntities", "DeleteEntitiesSingle"} -> {"entity_id"}
    [] OTHER -> {}

Falsy(b, f) == IF f \in {"id", "entity_id", "user_id"} THEN b[f] = NoId ELSE ~Truthy(b[f])

\* the body lacks, or holds a falsy value for, a mandatory field
LacksRequired(op, b) == \E f \in RequiredFields(op) : Falsy(b, f)

\* the body holds a category that is neither "income" nor "expense" in any case
BadCategory(op, b) ==
  /\ op \in PostPutOps
  /\ Truthy(b.category)
  /\ ToLower(b.category) \notin {"income", "expense"}

\* the names each handler resolves to foreign keys
ResolvedNames(op) ==
  CASE op \in {"PostServices", "PutServices"} -> {"entity_name"}
    [] op \in {"PostPayees", "PutPayees"} -> {"entity_name", "service_name"}
    [] op \in {"PostSubscriptions", "PutSubscriptions"} ->
         {"entity_name", "service_name", "payee_name"}
    [] OTHER -> {}

NameStored(s, f, n) ==
  CASE f = "entity_name" -> \E e \in s.entities : e.entity_name = n
    [] f = "service_name" -> \E e \in s.services : e.service_name = n
    [] f = "payee_name" -> \E e \in s.payees : e.payee_name = n

\* the body supplies a name to resolve that no stored row bears
UnknownName(op, s, b) ==
  \E f \in ResolvedNames(op) : Truthy(b[f]) /\ ~NameStored(s, f, b[f])

\* the id the request addresses
TargetId(op, b) ==
  IF op \in {"DeleteEntities", "DeleteEntitiesSingle"} THEN b.entity_id
  ELSE IF "id" \in DOMAIN b THEN b.id ELSE NoId

-----------------------------------------------------------------------------
(* The requests *)

NoBody == [none |-> NoId]

\* the request came with a body that parsed
HasBody(b) == "none" \notin DOMAIN b

\* the handler answers r to a request during which fault f struck, after k
\* statements of a cascade had run
Answered(op, h, b, r, f, k) ==
  /\ store' = r.store
  /\ before' = store
  /\ last' = [op |-> op, status |-> r.status, data |-> r.data,
              bearer |-> ValidBearer(h),
              subj |-> IF JwtVerifies(h.token) THEN h.token.user_id ELSE NoId,
              lacks |-> HasBody(b) /\ LacksRequired(op, b),
              badcat |-> HasBody(b) /\ BadCategory(op, b),
              unknown |-> HasBody(b) /\ UnknownName(op, store, b),
              target |-> IF HasBody(b) THEN TargetId(op, b) ELSE NoId,
              scheme |-> h.scheme, body |-> b, fault |-> f, done |-> k,
              header |-> h]
  /\ nreq' = nreq + 1
  /\ pending' = pending

Answer(op, h, b, r) == Answered(op, h, b, r, "none", 0)

ReqGetEntities ==
  \E h \in Headers : \E r \in GetEntities(store, h) : Answer("GetEntities", h, NoBody, r)
ReqPostEntities ==
  \E h \in Headers, b \in EntityPostBodies :
    \E r \in PostEntities(store, h, b) : Answer("PostEntities", h, b, r)
ReqPutEntities ==
  \E h \in Headers, b \in EntityPutBodies :
    \E r \in PutEntities(store, h, b) : Answer("PutEntities", h, b, r)
ReqDeleteEntities ==
  \E h \in Headers, b \in EntityDeleteBodies :
    \E r \in DeleteEntities(store, h, b) : Answer("DeleteEntities", h, b, r)
\* the route that relies on ON DELETE CASCADE runs on a schema that declares it
ReqDeleteEntitiesSingle ==
  \E h \in Headers, b \in EntityDeleteBodies :
    /\ store.fkCascade
    /\ \E r \in DeleteEntitiesSingle(store, h, b) : Answer("DeleteEntitiesSingle", h, b, r)

ReqGetServices ==
  \E h \in Headers : \E r \in GetServices(store, h) : Answer("GetServices", h, NoBody, r)
ReqPostServices ==
  \E h \in Headers, b \in ServicePostBodies :
    \E r \in PostServices(store, h, b) : Answer("PostServices", h, b, r)
ReqPutServices ==
  \E h \in Headers, b \in ServicePutBodies :
    \E r \in PutServices(store, h, b) : Answer("PutServices", h, b, r)
ReqDeleteServices ==
  \E h \in Headers, b \in IdBodies :
    \E r \in DeleteServices(store, h, b) : Answer("DeleteServices", h, b, r)
ReqDeleteServicesSingle ==
  \E h \in Headers, b \in IdBodies :
    /\ store.fkCascade
    /\ \E r \in DeleteServicesSingle(store, h, b) : Answer("DeleteServicesSingle", h, b, r)

ReqGetPayees ==
  \E h \in Headers : \E r \in GetPayees(store, h) : Answer("GetPayees", h, NoBody, r)
ReqPostPayees ==
  \E h \in Headers, b \in PayeePostBodies :
    \E r \in PostPayees(store, h, b) : Answer("PostPayees", h, b, r)
ReqPutPayees ==
  \E h \in Headers, b \in PayeePutBodies :
    \E r \in PutPayees(store, h, b) : Answer("PutPayees", h, b, r)
ReqDeletePayees ==
  \E h \in Headers, b \in IdBodies :
    \E r \in DeletePayees(store, h, b) : Answer("DeletePayees", h, b, r)

ReqGetSubscriptions ==
  \E h \in Headers :
    \E r \in GetSubscriptions(store, h) : Answer("GetSubscriptions", h, NoBody, r)
ReqPostSubscriptions ==
  \E h \in Headers, b \in SubscriptionPostBodies :
    \E r \in PostSubscriptions(store, h, b) : Answer("PostSubscriptions", h, b, r)
ReqPutSubscriptions ==
  \E h \in Headers, b \in SubscriptionPutBodies :
    \E r \in PutSubscriptions(store, h, b) : Answer("PutSubscriptions", h, b, r)
ReqDeleteSubscriptions ==
  \E h \in Headers, b \in IdBodies :
    \E r \in DeleteSubscriptions(store, h, b) : Answer("DeleteSubscriptions", h, b, r)

ReqEditUser ==
  \E h \in Headers, b \in UserPutBodies :
    \E r \in EditUser(store, h, b) : Answer("EditUser", h, b, r)
ReqDeleteUser ==
  \E h \in Headers : \E r \in DeleteUser(store, h) : Answer("DeleteUser", h, NoBody, r)

-----------------------------------------------------------------------------
(* Initial stores: the empty store and the stores a chain of successful POST *)
(* requests (entity, service, payee, subscription) leaves                    *)

Bearer(u) == [scheme |-> "Bearer", token |-> Tok(u)]
\* the store a POST leaves: with the created row, or as it was when the
\* request is refused
Created(outcomes) ==
  IF \E r \in outcomes : r.status = 201
  THEN (CHOOSE r \in outcomes : r.status = 201).store
  ELSE (CHOOSE r \in outcomes : TRUE).store

Other(u) == CHOOSE v \in Users : v # u

WithEntity(s, u, n) ==
  Created(PostEntities(s, Bearer(u), [entity_name |-> n, entity_desc |-> V,
                                      entity_short_desc |-> V, category |-> "Income"]))
WithService(s, u, n) ==
  Created(PostServices(s, Bearer(u), [service_name |-> n, service_desc |-> V,
                                      entity_name |-> "a", min_duration |-> V,
                                      amount |-> V, category |-> "expense"]))
WithPayee(s, u, n) ==
  Created(PostPayees(s, Bearer(u), [entity_name |-> "a", service_name |-> "a",
                                    payee_name |-> n, phone |-> V, email |-> V,
                                    amount |-> V, category |-> "expense"]))
WithSubscription(s, u) ==
  Created(PostSubscriptions(s, Bearer(u),
            [entity_name |-> "a", service_name |-> "a", payee_name |-> "a",
             startDate |-> V, endDate |-> V, amount |-> V, paymentDate |-> V,
             category |-> "expense"]))

\* one row per table: entity "a" of user 1, then a service, a payee and a
\* subscription that name it, each created by either user
Chain(c, o) ==
  WithSubscription(
    WithPayee(WithService(WithEntity(EmptyStore(c), 1, "a"), o[1], "a"), o[2], "a"),
    o[3])

\* a second row per table, created by the other user: entity "b", and a
\* service "b", a payee "b" and a subscription that name entity "a", service
\* "a" and payee "a"
Chain2(c, o) ==
  WithSubscription(
    WithPayee(WithService(WithEntity(Chain(c, o), 2, "b"), Other(o[1]), "b"),
              Other(o[2]), "b"),
    Other(o[3]))

Seeds ==
  {EmptyStore(c) : c \in BOOLEAN}
  \cup {Chain(c, o) : c \in BOOLEAN, o \in Users \X Users \X Users}
  \cup {Chain2(c, o) : c \in BOOLEAN, o \in Users \X Users \X Users}

Init ==
  /\ store \in Seeds
  /\ last = [op |-> "none", status |-> 0, data |-> {}, bearer |-> FALSE, subj |-> NoId,
             lacks |-> FALSE, badcat |-> FALSE, unknown |-> FALSE, target |-> NoId,
             scheme |-> "none", body |-> NoBody, fault |-> "none", done |-> 0,
             header |-> NoHeader]
  /\ before = store
  /\ nreq = 0
  /\ pending = <<>>

Next ==
  /\ nreq < MaxRequests
  /\ \/ ReqGetEntities
     \/ ReqPostEntities
     \/ ReqPutEntities
     \/ ReqDeleteEntities
     \/ ReqDeleteEntitiesSingle
     \/ ReqGetServices
     \/ ReqPostServices
     \/ ReqPutServices
     \/ ReqDeleteServices
     \/ ReqDeleteServicesSingle
     \/ ReqGetPayees
     \/ ReqPostPayees
     \/ ReqPutPayees
     \/ ReqDeletePayees
     \/ ReqGetSubscriptions
     \/ ReqPostSubscriptions
     \/ ReqPutSubscriptions
     \/ ReqDeleteSubscriptions
     \/ ReqEditUser
     \/ ReqDeleteUser

Spec == Init /\ [][Next]_vars

-----------------------------------------------------------------------------
(* Requests during which something throws: request.json() rejects, a         *)
(* db.execute rejects, or a method is called on a value of the wrong type    *)

UserOps == {"EditUser", "DeleteUser"}
Ops == {"GetEntities", "PostEntities", "PutEntities", "DeleteEntities",
        "DeleteEntitiesSingle", "GetServices", "PostServices", "PutServices",
        "DeleteServices", "DeleteServicesSingle", "GetPayees", "PostPayees",
        "PutPayees", "DeletePayees", "GetSubscriptions", "PostSubscriptions",
        "PutSubscriptions", "DeleteSubscriptions", "EditUser", "DeleteUser"}
\* the handlers that read a body with request.json()
BodyOps == Ops \ {"GetEntities", "GetServices", "GetPayees", "GetSubscriptions",
                  "DeleteUser"}

Bodies(op) ==
  CASE op = "PostEntities" -> EntityPostBodies
    [] op = "PutEntities" -> EntityPutBodies
    [] op \in {"DeleteEntities", "DeleteEntitiesSingle"} -> EntityDeleteBodies
    [] op = "PostServices" -> ServicePostBodies
    [] op = "PutServices" -> ServicePutBodies
    [] op = "PostPayees" -> PayeePostBodies
    [] op = "PutPayees" -> PayeePutBodies
    [] op = "PostSubscriptions" -> SubscriptionPostBodies
    [] op = "PutSubscriptions" -> SubscriptionPutBodies
    [] op \in {"DeleteServices", "DeleteServicesSingle", "DeletePayees",
               "DeleteSubscriptions"} -> IdBodies
    [] op = "EditUser" -> UserPutBodies
    [] OTHER -> {NoBody}

\* the exported function that serves the request
Handle(op, s, h, b) ==
  CASE op = "GetEntities" -> GetEntities(s, h)
    [] op = "PostEntities" -> PostEntities(s, h, b)
    [] op = "PutEntities" -> PutEntities(s, h, b)
    [] op = "DeleteEntities" -> DeleteEntities(s, h, b)
    [] op = "DeleteEntitiesSingle" -> DeleteEntitiesSingle(s, h, b)
    [] op = "GetServices" -> GetServices(s, h)
    [] op = "PostServices" -> PostServices(s, h, b)
    [] op = "PutServices" -> PutServices(s, h, b)
    [] op = "DeleteServices" -> DeleteServices(s, h, b)
    [] op = "DeleteServicesSingle" -> DeleteServicesSingle(s, h, b)
    [] op = "GetPayees" -> GetPayees(s, h)
    [] op = "PostPayees" -> PostPayees(s, h, b)
    [] op = "PutPayees" -> PutPayees(s, h, b)
    [] op = "DeletePayees" -> DeletePayees(s, h, b)
    [] op = "GetSubscriptions" -> GetSubscriptions(s, h)
    [] op = "PostSubscriptions" -> PostSubscriptions(s, h, b)
    [] op = "PutSubscriptions" -> PutSubscriptions(s, h, b)
    [] op = "DeleteSubscriptions" -> DeleteSubscriptions(s, h, b)
    [] op = "EditUser" -> EditUser(s, h, b)
    [] op = "DeleteUser" -> DeleteUser(s, h)

\* the first statements of every handler, up to jwt.verify: the response
\* they end the request with, if any
AuthGuard(op, s, h) ==
  IF op \in UserOps
  THEN IF MissingToken(h) THEN {Resp(401, s)}
       ELSE IF ~JwtVerifies(h.token) THEN {CatchAll(s)} ELSE {}
  ELSE IF MissingBearer(h) THEN {Resp(401, s)}
       ELSE IF ~JwtVerifies(h.token) THEN {CatchAll(s)} ELSE {}

\* await request.json() rejects: it is the first statement after jwt.verify
BodyParseFails(op, s, h) ==
  IF AuthGuard(op, s, h) # {} THEN AuthGuard(op, s, h) ELSE {CatchAll(s)}

\* the first db.execute of the request rejects: in every handler the returns
\* with 400 and 401 come before it and every other return after it
StatementFails(op, s, h, b) ==
  {IF r.status \in {400, 401} THEN r ELSE CatchAll(s) : r \in Handle(op, s, h, b)}

\* a category that is truthy and not a string
NonString == "#42"
\* category.toLowerCase() throws a TypeError: the handlers of Entities and
\* Services call it once the required fields are found present
CategoryNotAString(op, s, h, b) ==
  {IF r.status \in {400, 401} THEN r ELSE CatchAll(s) : r \in Handle(op, s, h, b)}

\* a DELETE statement of a cascade rejects after k of them ran: the handler
\* reaches its cascade exactly when it would have answered 200
DeleteEntitiesFails(s, h, b, k) ==
  {IF r.status = 200
   THEN CatchAll(EntityCascadeUpTo(s, b.entity_id, h.token.user_id, k)) ELSE r :
     r \in DeleteEntities(s, h, b)}
DeleteServicesFails(s, h, b, k) ==
  {IF r.status = 200
   THEN CatchAll(ServiceCascadeUpTo(s, b.id, h.token.user_id, k)) ELSE r :
     r \in DeleteServices(s, h, b)}
DeletePayeesFails(s, h, b, k) ==
  {IF r.status = 200
   THEN CatchAll(PayeeCascadeUpTo(s, b.id, h.token.user_id, k)) ELSE r :
     r \in DeletePayees(s, h, b)}

ReqBodyParseFails ==
  \E op \in BodyOps, h \in Headers :
    /\ op \in {"DeleteEntitiesSingle", "DeleteServicesSingle"} => store.fkCascade
    /\ \E r \in BodyParseFails(op, store, h) : Answered(op, h, NoBody, r, "json", 0)
ReqStatementFails ==
  \E op \in Ops, h \in Headers :
    /\ op \in {"DeleteEntitiesSingle", "DeleteServicesSingle"} => store.fkCascade
    /\ \E b \in Bodies(op) :
         \E r \in StatementFails(op, store, h, b) : Answered(op, h, b, r, "db", 0)
ReqCategoryNotAString ==
  \E op \in {"PostEntities", "PutEntities", "PostServices", "PutServices"},
     h \in Headers :
    \E b \in {x \in Bodies(op) : x.category = "expense"} :
      \E r \in CategoryNotAString(op, store, h, b) :
        Answered(op, h, [b EXCEPT !.category = NonString], r, "type", 0)
ReqDeleteEntitiesFails ==
  \E h \in Headers, b \in EntityDeleteBodies, k \in 0..3 :
    \E r \in DeleteEntitiesFails(store, h, b, k) :
      Answered("DeleteEntities", h, b, r, "cascade", k)
ReqDeleteServicesFails ==
  \E h \in Headers, b \in IdBodies, k \in 0..2 :
    \E r \in DeleteServicesFails(store, h, b, k) :
      Answered("DeleteServices", h, b, r, "cascade", k)
ReqDeletePayeesFails ==
  \E h \in Headers, b \in IdBodies, k \in 0..1 :
    \E r \in DeletePayeesFails(store, h, b, k) :
      Answered("DeletePayees", h, b, r, "cascade", k)

\* the requests of Next, and the requests during which something throws
FaultNext ==
  /\ nreq < MaxRequests
  /\ \/ ReqGetEntities
     \/ ReqPostEntities
     \/ ReqPutEntities
     \/ ReqDeleteEntities
     \/ ReqDeleteEntitiesSingle
     \/ ReqGetServices
     \/ ReqPostServices
     \/ ReqPutServices
     \/ ReqDeleteServices
     \/ ReqDeleteServicesSingle
     \/ ReqGetPayees
     \/ ReqPostPayees
     \/ ReqPutPayees
     \/ ReqDeletePayees
     \/ ReqGetSubscriptions
     \/ ReqPostSubscriptions
     \/ ReqPutSubscriptions
     \/ ReqDeleteSubscriptions
     \/ ReqEditUser
     \/ ReqDeleteUser
     \/ ReqBodyParseFails
     \/ ReqStatementFails
     \/ ReqCategoryNotAString
     \/ ReqDeleteEntitiesFails
     \/ ReqDeleteServicesFails
     \/ ReqDeletePayeesFails

FaultSpec == Init /\ [][FaultNext]_vars

-----------------------------------------------------------------------------
(* Requests in flight.  A handler suspends at every await db.execute, so each *)
(* statement is one step and the statements of two requests interleave; the   *)
(* store runs each statement atomically.  The requests carry a valid Bearer   *)
(* token and a body that passes validation.                                   *)

StepOps == {"PutEntities", "PutServices", "EditUser", "PostServices", "PostPayees",
            "PostSubscriptions", "DeleteEntities", "DeleteServices", "DeletePayees",
            "DeleteEntitiesSingle", "DeleteServicesSingle"}

StepBodies(op) ==
  CASE op = "PutEntities" ->
         {[id |-> 1, entity_name |-> n, entity_desc |-> V, entity_short_desc |-> V,
           category |-> c] : n \in Names, c \in {Undef, "expense"}}
    [] op = "PutServices" ->
         {[id |-> 1, entity_name |-> "a", service_name |-> n, service_desc |-> V,
           min_duration |-> V, amount |-> V, category |-> c] :
            n \in {Undef, "b"}, c \in {Undef, "Income"}}
    [] op = "EditUser" ->
         {[name |-> V, email |-> V, phone |-> V, username |-> n, password |-> V] :
            n \in {"y", "z"}}
    [] op = "PostServices" ->
         {[service_name |-> "b", service_desc |-> V, entity_name |-> "a",
           min_duration |-> V, amount |-> V, category |-> "expense"]}
    [] op = "PostPayees" ->
         {[entity_name |-> "a", service_name |-> "a", payee_name |-> "b", phone |-> V,
           email |-> V, amount |-> V, category |-> "expense"]}
    [] op = "PostSubscriptions" ->
         {[entity_name |-> "a", service_name |-> "a", payee_name |-> "a",
           startDate |-> V, endDate |-> V, amount |-> V, paymentDate |-> V,
           category |-> "expense"]}
    [] op \in {"DeleteEntities", "DeleteEntitiesSingle"} -> {[entity_id |-> 1]}
    [] op \in {"DeleteServices", "DeleteServicesSingle", "DeletePayees"} -> {[id |-> 1]}

\* a request not yet received; stamp records the order in which the UPDATE
\* statements of the requests ran
Idle == [op |-> "idle", pc |-> "idle", subj |-> NoId, body |-> NoBody,
         entityId |-> NoId, serviceId |-> NoId, payeeId |-> NoId, existing |-> {},
         done |-> 0, status |-> 0, created |-> {}, stamp |-> 0]

\* the first statement each handler awaits
FirstStatement(op) ==
  CASE op \in {"PutEntities", "DeleteEntities", "DeleteServices", "DeletePayees",
               "DeleteEntitiesSingle", "DeleteServicesSingle"} -> "selectOwned"
    [] op = "EditUser" -> "selectConflict"
    [] OTHER -> "selectEntity"

\* the DELETE statements of each cascade
CascadeLength(op) ==
  CASE op = "DeleteEntities" -> 4
    [] op = "DeleteServices" -> 3
    [] op = "DeletePayees" -> 2

\* the request returns its response
Finish(p, st) == [pending EXCEPT ![p].pc = "done", ![p].status = st]

\* the steps leave the record of the last whole request alone
StepFrame == UNCHANGED <<before, last, nreq>>

\* the handler is entered: the token verifies and the body is validated
Begin(p) ==
  /\ pending[p].pc = "idle"
  /\ \E op \in StepOps, u \in Users :
       /\ op \in {"DeleteEntitiesSingle", "DeleteServicesSingle"} => store.fkCascade
       /\ \E b \in StepBodies(op) :
            LET invalid == LacksRequired(op, b)
                             \/ (op \in {"PutEntities", "PostServices", "PutServices"}
                                 /\ BadCategory(op, b))
            IN pending' = [pending EXCEPT ![p] =
                 [Idle EXCEPT !.op = op, !.subj = u, !.body = b,
                              !.pc = IF invalid THEN "done" ELSE FirstStatement(op),
                              !.status = IF invalid THEN 400 ELSE 0]]
  /\ UNCHANGED store
  /\ StepFrame

\* SELECT id FROM entities WHERE entity_name = ?
SelectEntity(p) ==
  LET q == pending[p]
      ids == EntityIdsByName(store, q.body.entity_name)
  IN /\ q.pc = "selectEntity"
     /\ IF ids = {}
        THEN pending' = IF q.op \in {"PostServices", "PutServices"} THEN Finish(p, 404)
                        ELSE [pending EXCEPT ![p].pc = "selectService"]
        ELSE \E i \in FirstRow(ids) :
               pending' = [pending EXCEPT
                 ![p].entityId = i,
                 ![p].pc = CASE q.op = "PostServices" -> "insert"
                             [] q.op = "PutServices" -> "selectOwned"
                             [] OTHER -> "selectService"]
     /\ UNCHANGED store
     /\ StepFrame

\* SELECT id FROM services WHERE service_name = ?, and in POST Payees the
\* test of both rows that follows it
SelectService(p) ==
  LET q == pending[p]
      ids == ServiceIdsByName(store, q.body.service_name)
  IN /\ q.pc = "selectService"
     /\ \E i \in IF ids = {} THEN {NoId} ELSE FirstRow(ids) :
          pending' =
            IF q.op = "PostSubscriptions"
            THEN [pending EXCEPT ![p].serviceId = i, ![p].pc = "selectPayee"]
            ELSE IF q.entityId = NoId \/ i = NoId THEN Finish(p, 404)
            ELSE [pending EXCEPT ![p].serviceId = i, ![p].pc = "insert"]
     /\ UNCHANGED store
     /\ StepFrame

\* SELECT id FROM payees WHERE payee_name = ?, and the test of the three rows
SelectPayee(p) ==
  LET q == pending[p]
      ids == PayeeIdsByName(store, q.body.payee_name)
  IN /\ q.pc = "selectPayee"
     /\ \E i \in IF ids = {} THEN {NoId} ELSE FirstRow(ids) :
          pending' = IF q.entityId = NoId \/ q.serviceId = NoId \/ i = NoId
                     THEN Finish(p, 404)
                     ELSE [pending EXCEPT ![p].payeeId = i, ![p].pc = "insert"]
     /\ UNCHANGED store
     /\ StepFrame

\* SELECT ... WHERE id = ? AND user_id = ? (AND entity_id = ? in PUT Services)
SelectOwned(p) ==
  LET q == pending[p]
      rows ==
        CASE q.op = "PutEntities" -> ExistingEntity(store, q.body.id, q.subj)
          [] q.op \in {"DeleteEntities", "DeleteEntitiesSingle"} ->
               {e \in store.entities : e.id = q.body.entity_id /\ e.user_id = q.subj}
          [] q.op = "PutServices" ->
               {e \in store.services : e.id = q.body.id /\ e.user_id = q.subj
                                       /\ e.entity_id = q.entityId}
          [] q.op \in {"DeleteServices", "DeleteServicesSingle"} ->
               {e \in store.services : e.id = q.body.id /\ e.user_id = q.subj}
          [] q.op = "DeletePayees" -> ExistingPayee(store, q.body.id, q.subj)
  IN /\ q.pc = "selectOwned"
     /\ IF rows = {} THEN pending' = Finish(p, 404)
        ELSE \E ex \in FirstRow(rows) :
               pending' = [pending EXCEPT
                 ![p].existing = {ex},
                 ![p].pc = CASE q.op \in {"PutEntities", "PutServices"} -> "update"
                             [] q.op \in {"DeleteEntitiesSingle",
                                          "DeleteServicesSingle"} -> "deleteSingle"
                             [] OTHER -> "cascade"]
     /\ UNCHANGED store
     /\ StepFrame

\* an UPDATE that re-reads the row inside the statement
UpdateOfStoredRow(s, q) ==
  IF q.op = "PutEntities"
  THEN [s EXCEPT !.entities =
          {IF e.id = q.body.id /\ e.user_id = q.subj
           THEN EntityUpdated(e, q.body, e) ELSE e : e \in @}]
  ELSE [s EXCEPT !.services =
          {IF e.id = q.body.id /\ e.user_id = q.subj /\ e.entity_id = q.entityId
           THEN ServiceUpdated(e, q.body, e) ELSE e : e \in @}]

\* UPDATE entities / services SET ... WHERE id = ? AND user_id = ? (AND
\* entity_id = ?), bound with the body and the row the handler read before
UpdateStatement(s, q) ==
  LET ex == CHOOSE x \in q.existing : TRUE
  IN IF q.op = "PutEntities"
     THEN [s EXCEPT !.entities =
             {IF e.id = q.body.id /\ e.user_id = q.subj
              THEN EntityUpdated(e, q.body, ex) ELSE e : e \in @}]
     ELSE [s EXCEPT !.services =
             {IF e.id = q.body.id /\ e.user_id = q.subj /\ e.entity_id = q.entityId
              THEN ServiceUpdated(e, q.body, ex) ELSE e : e \in @}]

Update(p) ==
  /\ pending[p].pc = "update"
  /\ store' = UpdateStatement(store, pending[p])
  /\ pending' = [Finish(p, 200) EXCEPT
                   ![p].stamp = 1 + Cardinality({r \in DOMAIN pending :
                                                   pending[r].stamp > 0})]
  /\ StepFrame

\* whether the store accepts the foreign keys of a new row: a schema that
\* declares them (with ON DELETE CASCADE) rejects an id that names no row
ForeignKeysHold(s, q) ==
  ~s.fkCascade
  \/ /\ q.entityId \in {e.id : e \in s.entities}
     /\ q.op # "PostServices" => q.serviceId \in {e.id : e \in s.services}
     /\ q.op = "PostSubscriptions" => q.payeeId \in {e.id : e \in s.payees}

\* the row INSERT INTO services / payees / subscriptions writes
InsertedRow(s, q) ==
  LET b == q.body
  IN CASE q.op = "PostServices" ->
            [id |-> s.nextService, user_id |-> q.subj, entity_id |-> q.entityId,
             service_name |-> b.service_name, service_desc |-> b.service_desc,
             min_duration |-> b.min_duration, amount |-> b.amount,
             category |-> ToLower(b.category)]
       [] q.op = "PostPayees" ->
            [id |-> s.nextPayee, user_id |-> q.subj, entity_id |-> q.entityId,
             service_id |-> q.serviceId, payee_name |-> b.payee_name,
             phone |-> b.phone, email |-> b.email, amount |-> b.amount,
             category |-> b.category]
       [] q.op = "PostSubscriptions" ->
            [id |-> s.nextSubscription, user_id |-> q.subj, entity_id |-> q.entityId,
             service_id |-> q.serviceId, payee_id |-> q.payeeId,
             startDate |-> b.startDate, endDate |-> b.endDate, amount |-> b.amount,
             paymentDate |-> b.paymentDate, category |-> b.category]

Insert(p) ==
  LET q == pending[p]
      row == InsertedRow(store, q)
  IN /\ q.pc = "insert"
     /\ IF ~ForeignKeysHold(store, q)
        THEN /\ pending' = Finish(p, 500)
             /\ UNCHANGED store
        ELSE /\ pending' = [Finish(p, 201) EXCEPT ![p].created = {row.id}]
             /\ store' =
                  CASE q.op = "PostServices" ->
                         [store EXCEPT !.services = @ \cup {row}, !.nextService = @ + 1]
                    [] q.op = "PostPayees" ->
                         [store EXCEPT !.payees = @ \cup {row}, !.nextPayee = @ + 1]
                    [] q.op = "PostSubscriptions" ->
                         [store EXCEPT !.subscriptions = @ \cup {row},
                                       !.nextSubscription = @ + 1]
     /\ StepFrame

\* a cascade that deletes the addressed row first
CascadeTargetFirst(s, q) ==
  LET id == IF q.op = "DeleteEntities" THEN q.body.entity_id ELSE q.body.id
  IN IF q.done = 0
     THEN CASE q.op = "DeleteEntities" -> SqlDeleteEntities(s, {id})
            [] q.op = "DeleteServices" -> SqlDeleteServices(s, {id})
            [] q.op = "DeletePayees" -> SqlDeletePayees(s, {id})
     ELSE CASE q.op = "DeleteEntities" -> EntityCascade(s, id, q.subj)
            [] q.op = "DeleteServices" -> ServiceCascade(s, id, q.subj)
            [] q.op = "DeletePayees" -> PayeeCascade(s, id, q.subj)

\* the next DELETE statement of a manual cascade, run on the store as it is
\* now: statement done + 1 alone
CascadeStatement(s, q) ==
  LET id == IF q.op = "DeleteEntities" THEN q.body.entity_id ELSE q.body.id
  IN CASE q.op = "DeleteEntities" /\ q.done = 0 ->
            SqlDeleteServices(s, {r.id : r \in {x \in s.services : x.entity_id = id}})
       [] q.op = "DeleteEntities" /\ q.done = 1 ->
            SqlDeletePayees(s, {r.id : r \in {x \in s.payees : x.entity_id = id}})
       [] q.op = "DeleteEntities" /\ q.done = 2 ->
            [s EXCEPT !.subscriptions = {r \in @ : r.entity_id # id}]
       [] q.op = "DeleteEntities" /\ q.done = 3 ->
            SqlDeleteEntities(s, {e.id : e \in {x \in s.entities :
                                                  x.id = id /\ x.user_id = q.subj}})
       [] q.op = "DeleteServices" /\ q.done = 0 ->
            SqlDeletePayees(s, {r.id : r \in {x \in s.payees : x.service_id = id}})
       [] q.op = "DeleteServices" /\ q.done = 1 ->
            [s EXCEPT !.subscriptions = {r \in @ : r.service_id # id}]
       [] q.op = "DeleteServices" /\ q.done = 2 ->
            SqlDeleteServices(s, {e.id : e \in {x \in s.services :
                                                  x.id = id /\ x.user_id = q.subj}})
       [] q.op = "DeletePayees" /\ q.done = 0 ->
            [s EXCEPT !.subscriptions = {r \in @ : r.payee_id # id}]
       [] q.op = "DeletePayees" /\ q.done = 1 ->
            SqlDeletePayees(s, {r.id : r \in {x \in s.payees :
                                                x.id = id /\ x.user_id = q.subj}})

Cascade(p) ==
  LET q == pending[p]
  IN /\ q.pc = "cascade"
     /\ store' = CascadeStatement(store, q)
     /\ pending' = IF q.done + 1 = CascadeLength(q.op)
                   THEN [Finish(p, 200) EXCEPT ![p].done = q.done + 1]
                   ELSE [pending EXCEPT ![p].done = q.done + 1]
     /\ StepFrame

\* DELETE FROM entities / services WHERE id = ? of the single-statement routes
DeleteSingle(p) ==
  LET q == pending[p]
  IN /\ q.pc = "deleteSingle"
     /\ store' = IF q.op = "DeleteEntitiesSingle"
                 THEN SqlDeleteEntities(store, {q.body.entity_id})
                 ELSE SqlDeleteServices(store, {q.body.id})
     /\ pending' = Finish(p, 200)
     /\ StepFrame

\* SELECT * FROM users WHERE username = ? AND sr != ?
SelectConflict(p) ==
  LET q == pending[p]
  IN /\ q.pc = "selectConflict"
     /\ pending' = IF UsernameTaken(store, q.body.username, q.subj) # {}
                   THEN Finish(p, 409)
                   ELSE [pending EXCEPT ![p].pc = "updateUser"]
     /\ UNCHANGED store
     /\ StepFrame

\* UPDATE users SET name = ?, ..., username = ?, password = ? WHERE sr = ?
UpdateUser(p) ==
  LET q == pending[p]
  IN /\ q.pc = "updateUser"
     /\ store' = [store EXCEPT !.users =
                    {IF u.sr = q.subj
                     THEN [u EXCEPT !.name = q.body.name, !.email = q.body.email,
                                    !.phone = q.body.phone,
                                    !.username = q.body.username,
                                    !.password = q.body.password]
                     ELSE u : u \in @}]
     /\ pending' = Finish(p, IF \E u \in store.users : u.sr = q.subj THEN 200 ELSE 404)
     /\ StepFrame

\* the stores the requests in flight start from
StepSeeds ==
  {Chain(c, <<1, 1, 1>>) : c \in BOOLEAN} \cup {Chain2(c, <<1, 2, 1>>) : c \in BOOLEAN}

StepNext ==
  \/ \E p \in DOMAIN pending : Begin(p)
  \/ \E p \in DOMAIN pending : SelectEntity(p)
  \/ \E p \in DOMAIN pending : SelectService(p)
  \/ \E p \in DOMAIN pending : SelectPayee(p)
  \/ \E p \in DOMAIN pending : SelectOwned(p)
  \/ \E p \in DOMAIN pending : Update(p)
  \/ \E p \in DOMAIN pending : Insert(p)
  \/ \E p \in DOMAIN pending : Cascade(p)
  \/ \E p \in DOMAIN pending : DeleteSingle(p)
  \/ \E p \in DOMAIN pending : SelectConflict(p)
  \/ \E p \in DOMAIN pending : UpdateUser(p)

\* one request at a time
SeqInit ==
  /\ store \in StepSeeds
  /\ before = store
  /\ last = [op |-> "none", status |-> 0, data |-> {}, bearer |-> FALSE, subj |-> NoId,
             lacks |-> FALSE, badcat |-> FALSE, unknown |-> FALSE, target |-> NoId,
             scheme |-> "none", body |-> NoBody, fault |-> "none", done |-> 0,
             header |-> NoHeader]
  /\ nreq = 0
  /\ pending = [p \in {1} |-> Idle]

SeqSpec == SeqInit /\ [][StepNext]_vars

\* two requests whose statements interleave
ConcInit ==
  /\ store \in StepSeeds
  /\ before = store
  /\ last = [op |-> "none", status |-> 0, data |-> {}, bearer |-> FALSE, subj |-> NoId,
             lacks |-> FALSE, badcat |-> FALSE, unknown |-> FALSE, target |-> NoId,
             scheme |-> "none", body |-> NoBody, fault |-> "none", done |-> 0,
             header |-> NoHeader]
  /\ nreq = 0
  /\ pending = [p \in {1, 2} |-> Idle]

ConcSpec == ConcInit /\ [][StepNext]_vars

-----------------------------------------------------------------------------
(* Vocabulary of the properties *)

GetOps == {"GetEntities", "GetServices", "GetPayees", "GetSubscriptions"}
PutDeleteOps == {"PutEntities", "PutServices", "PutPayees", "PutSubscriptions",
                 "DeleteEntities", "DeleteEntitiesSingle", "DeleteServices",
                 "DeleteServicesSingle", "DeletePayees", "DeleteSubscriptions"}
NameOps == {"PostServices", "PutServices", "PostPayees", "PutPayees",
            "PostSubscriptions", "PutSubscriptions"}
CategoryCheckedOps == {"PostEntities", "PutEntities", "PostServices", "PutServices"}

\* the table a list request reads
ListedTable(op, s) ==
  CASE op = "GetEntities" -> s.entities
    [] op = "GetServices" -> s.services
    [] op = "GetPayees" -> s.payees
    [] op = "GetSubscriptions" -> s.subscriptions

Ids(rows) == {r.id : r \in rows}
PutOps == {"PutEntities", "PutServices", "PutPayees", "PutSubscriptions"}
DeleteOps == {"DeleteEntities", "DeleteEntitiesSingle", "DeleteServices",
              "DeleteServicesSingle", "DeletePayees", "DeleteSubscriptions"}
\* the table a PUT or DELETE addresses
TargetTable(op, s) ==
  CASE op \in {"PutEntities", "DeleteEntities", "DeleteEntitiesSingle"} -> s.entities
    [] op \in {"PutServices", "DeleteServices", "DeleteServicesSingle"} -> s.services
    [] op \in {"PutPayees", "DeletePayees"} -> s.payees
    [] op \in {"PutSubscriptions", "DeleteSubscriptions"} -> s.subscriptions
\* the request addressed a row that its subject owned when it arrived
OwnsTarget ==
  \E r \in TargetTable(last.op, before) : r.id = last.target /\ r.user_id = last.subj
\* the request passed the handler's validation of fields and category
PassesValidation ==
  ~last.lacks /\ ~(last.badcat /\ last.op \in CategoryCheckedOps)
\* the rows of the table before the request that it changed or removed
Touched(old, new) == {r \in old : r \notin new}
Unchanged == store = before

-----------------------------------------------------------------------------
(* C1 *)

\* C1 (as claimed): every request served without a valid Bearer token, to
\* any handler and with any body, is answered 401.
C1_NoValidBearerIs401 ==
  (last.op # "none" /\ ~last.bearer) => last.status = 401

-----------------------------------------------------------------------------
(* C2 *)

\* C2 (as claimed): a PUT or DELETE of subject S changes or removes only rows
\* whose user_id is S, the dependents removed by a cascade included.
C2_WritesOnlyOwnRows ==
  last.op \in PutDeleteOps =>
    \A r \in Touched(before.entities, store.entities)
             \cup Touched(before.services, store.services)
             \cup Touched(before.payees, store.payees)
             \cup Touched(before.subscriptions, store.subscriptions) :
      r.user_id = last.subj

-----------------------------------------------------------------------------
(* C3 *)

\* C3: whatever the store holds, the rows a GET of Entities, Services, Payees
\* or Subscriptions returns to subject S are rows of that table whose user_id
\* is S, and they carry user_id = S.
C3_ListOnlyOwnRows ==
  last.op \in GetOps =>
    \A r \in last.data :
      /\ r.user_id = last.subj
      /\ \E x \in ListedTable(last.op, store) : x.id = r.id /\ x.user_id = last.subj

\* a list answered 200 while the listed table also holds a row of another user
C3_Witness ==
  /\ last.op \in GetOps
  /\ last.status = 200
  /\ last.data # {}
  /\ \E x \in ListedTable(last.op, store) : x.user_id # last.subj

-----------------------------------------------------------------------------
(* C4 *)

\* C4 (as claimed): in every state every foreign key (entity_id, service_id,
\* payee_id) is the id of an existing row, never NULL and never dangling.
C4_ReferentialIntegrity ==
  /\ \A r \in store.services : r.entity_id \in Ids(store.entities)
  /\ \A r \in store.payees :
       r.entity_id \in Ids(store.entities) /\ r.service_id \in Ids(store.services)
  /\ \A r \in store.subscriptions :
       /\ r.entity_id \in Ids(store.entities)
       /\ r.service_id \in Ids(store.services)
       /\ r.payee_id \in Ids(store.payees)

-----------------------------------------------------------------------------
(* C5 *)

OwnsOnlyDependentsOf(s, u, E) ==
  \A r \in s.services \cup s.payees \cup s.subscriptions :
    r.user_id = u => r.entity_id = E

ListStatuses(s, u) ==
  {r.status : r \in GetServices(s, Bearer(u)) \cup GetPayees(s, Bearer(u))
                    \cup GetSubscriptions(s, Bearer(u))}

-----------------------------------------------------------------------------
(* C6 *)

-----------------------------------------------------------------------------
(* C7 *)

\* C7: after a DELETE Payees answered 200 for payee P, row P is gone and no
\* subscription has payee_id = P.
C7_DeletePayeeCascades ==
  (last.op = "DeletePayees" /\ last.status = 200) =>
    /\ last.target \notin Ids(store.payees)
    /\ \A r \in store.subscriptions : r.payee_id # last.target

\* the caller deleted a payee of theirs that a subscription referenced
C7_Witness ==
  /\ last.op = "DeletePayees"
  /\ last.status = 200
  /\ \E r \in before.subscriptions : r.payee_id = last.target
  /\ \E r \in before.payees : r.id = last.target /\ r.user_id = last.subj

-----------------------------------------------------------------------------
(* C8 *)

\* C8 (as claimed): every POST or PUT whose body lacks a mandatory field is
\* answered 400 and leaves the store unchanged.
C8_LacksRequiredIs400 ==
  (last.op \in PostPutOps /\ last.lacks) => (last.status = 400 /\ Unchanged)

\* C8 (amended): every POST or PUT that carries a valid Bearer token and
\* whose body lacks a mandatory field is answered 400; with or without the
\* token, a request lacking a mandatory field leaves the store unchanged.
C8_AuthenticatedLacksRequiredIs400 ==
  (last.op \in PostPutOps /\ last.lacks) =>
    /\ Unchanged
    /\ last.bearer => last.status = 400

\* an authenticated POST Subscriptions lacking a field, on a store with rows
C8_Witness ==
  /\ last.op = "PostSubscriptions"
  /\ last.bearer
  /\ last.lacks
  /\ last.status = 400
  /\ store.subscriptions # {}

-----------------------------------------------------------------------------
(* C9 *)

\* C9 (as claimed): every stored row's category is the lowercase literal
\* "income" or "expense" (a POST or PUT with another category is answered
\* 400 and accepted values are lowercased before they are written).
C9_StoredCategoryNormalised ==
  \A r \in store.entities \cup store.services \cup store.payees
            \cup store.subscriptions : r.category \in {"income", "expense"}

-----------------------------------------------------------------------------
(* C10 *)

\* C10 (as claimed): every Create or Update of Services, Payees or
\* Subscriptions that supplies a name to resolve which no stored row bears is
\* answered 404 and writes nothing.
C10_UnknownNameIs404 ==
  (last.op \in NameOps /\ last.unknown) => (last.status = 404 /\ Unchanged)

\* C10 (amended): such a request writes nothing, and it is answered 404 when
\* it carries a valid Bearer token and passes the handler's validation (no
\* mandatory field missing and, in Services, no invalid category).
C10_ValidUnknownNameIs404 ==
  (last.op \in NameOps /\ last.unknown) =>
    /\ Unchanged
    /\ (last.bearer /\ ~last.lacks /\ ~(last.badcat /\ last.op \in CategoryCheckedOps))
         => last.status = 404

\* an authenticated PUT Subscriptions naming an unknown payee for a stored
\* subscription
C10_Witness ==
  /\ last.op = "PutSubscriptions"
  /\ last.bearer
  /\ last.unknown
  /\ last.status = 404
  /\ last.target \in Ids(store.subscriptions)

-----------------------------------------------------------------------------
(* C11 *)

\* C11 (as claimed): a PUT to Entities, Services, Payees or Subscriptions
\* that carries a valid token, passes validation and names only stored names,
\* but whose id names no row owned by the subject, is answered 404 and
\* changes nothing (answers 500 of a rejected statement set aside).
C11_PutOfUnownedRowIs404 ==
  (/\ last.op \in PutOps
   /\ last.bearer
   /\ PassesValidation
   /\ ~last.unknown
   /\ last.status # 500
   /\ ~OwnsTarget) => (last.status = 404 /\ Unchanged)

-----------------------------------------------------------------------------
(* C12 *)

\* C12 (as claimed): a PUT Entities with a valid token and all required
\* fields whose id names an entity of another user is answered 404 and
\* leaves every row unchanged.
C12_PutForeignEntityIs404 ==
  (/\ last.op = "PutEntities"
   /\ last.bearer
   /\ ~last.lacks
   /\ \E e \in before.entities : e.id = last.target /\ e.user_id # last.subj)
    => (last.status = 404 /\ Unchanged)

\* C12 (amended): such a PUT leaves every row unchanged, and it is answered
\* 404 when its category is absent or is "income" or "expense" in any case
\* (another category is answered 400 before the ownership check).
C12_ValidPutForeignEntityIs404 ==
  (/\ last.op = "PutEntities"
   /\ last.bearer
   /\ ~last.lacks
   /\ \E e \in before.entities : e.id = last.target /\ e.user_id # last.subj)
    => /\ Unchanged
       /\ ~last.badcat => last.status = 404

\* user 2 sent a complete PUT with a new name and category for an entity of
\* user 1 and was answered 404
C12_Witness ==
  /\ last.op = "PutEntities"
  /\ last.status = 404
  /\ last.subj = 2
  /\ \E e \in store.entities :
       /\ e.id = last.target
       /\ e.user_id = 1
       /\ e.entity_name # last.body.entity_name
  /\ last.body.category = "expense"

-----------------------------------------------------------------------------
(* C13 *)

\* C13: a DELETE to Entities, Services, Payees or Subscriptions that carries
\* a valid token and an id naming no row owned by the subject is answered
\* 404 and deletes nothing, neither the row of that id nor a row that
\* references it.
C13_DeleteOfUnownedRowIs404 ==
  (/\ last.op \in DeleteOps
   /\ last.bearer
   /\ last.target # NoId
   /\ ~OwnsTarget) => (last.status = 404 /\ Unchanged)

\* the subject asked to delete a payee of another user that a subscription
\* references
C13_Witness ==
  /\ last.op = "DeletePayees"
  /\ last.status = 404
  /\ \E r \in store.payees : r.id = last.target /\ r.user_id # last.subj
  /\ \E r \in store.subscriptions : r.payee_id = last.target

-----------------------------------------------------------------------------
(* C14 *)

\* the column of the addressed table that a field of a PUT body updates
Column(op, f) ==
  CASE f = "entity_name" /\ op # "PutEntities" -> "entity_id"
    [] f = "service_name" /\ op # "PutServices" -> "service_id"
    [] f = "payee_name" /\ op # "PutPayees" -> "payee_id"
    [] OTHER -> f
\* the body of the request leaves the field out
Omitted(f) ==
  IF f \in {"id", "user_id"} THEN last.body[f] = NoId ELSE last.body[f] = Undef

\* the fields whose omission no driver rejects: the names resolved to
\* foreign keys and the owner
KeyFields == {"entity_name", "service_name", "payee_name", "user_id"}

\* C14 (as claimed, for the keys): after a PUT answered 200 whose body
\* holds every other field, the updated row holds the entity_id, service_id
\* or payee_id it held before when the body left the corresponding name out,
\* and the user_id it held before when the body left user_id out.
C14_OmittedFieldsKeepStoredValue ==
  (/\ last.op \in PutOps
   /\ last.status = 200
   /\ \A g \in DOMAIN last.body \ (KeyFields \cup {"id"}) : last.body[g] # Undef) =>
    \A f \in DOMAIN last.body \cap KeyFields :
      Omitted(f) =>
        \A new \in TargetTable(last.op, store), old \in TargetTable(last.op, before) :
          (new.id = last.target /\ old.id = last.target)
            => new[Column(last.op, f)] = old[Column(last.op, f)]

-----------------------------------------------------------------------------
(* C15 *)

\* C15: a POST Entities with a valid token of user U, the four required
\* fields and a category that is "income" or "expense" in any case is
\* answered 201, adds exactly one row to entities and changes nothing else;
\* the row is owned by U, and data holds that row: a fresh id, user_id = U,
\* the three texts as sent and the category in lower case.
C15_PostEntityCreates ==
  (last.op = "PostEntities" /\ last.bearer /\ ~last.lacks /\ ~last.badcat) =>
    /\ last.status = 201
    /\ Cardinality(last.data) = 1
    /\ store.entities = before.entities \cup last.data
    /\ Cardinality(store.entities) = Cardinality(before.entities) + 1
    /\ [store EXCEPT !.entities = before.entities, !.nextEntity = before.nextEntity]
         = before
    /\ \A row \in last.data :
         /\ row.id \notin Ids(before.entities)
         /\ row.user_id = last.subj
         /\ row.entity_name = last.body.entity_name
         /\ row.entity_desc = last.body.entity_desc
         /\ row.entity_short_desc = last.body.entity_short_desc
         /\ row.category \in {"income", "expense"}
         /\ last.body.category = "Income" => row.category = "income"

\* user 2 posted an entity of category "Income" to a store that held entities
C15_Witness ==
  /\ last.op = "PostEntities"
  /\ last.status = 201
  /\ last.subj = 2
  /\ last.body.category = "Income"
  /\ before.entities # {}
  /\ \E row \in last.data : row.category = "income" /\ row.user_id = 2

-----------------------------------------------------------------------------
(* C16 *)

\* C16: an EditUser PUT with a token of subject S whose username another
\* user than S holds is answered 409 and changes nothing; one whose username
\* is the one S holds, and nobody else, is not answered 409.
C16_UsernameConflictIs409 ==
  (last.op = "EditUser" /\ last.subj # NoId /\ last.body.username # Undef) =>
    /\ (\E u \in before.users : u.username = last.body.username /\ u.sr # last.subj)
         => (last.status = 409 /\ Unchanged)
    /\ (/\ \E u \in before.users : u.username = last.body.username /\ u.sr = last.subj
        /\ \A u \in before.users : u.username = last.body.username => u.sr = last.subj)
         => last.status # 409

\* user 1 asked for the username of user 2, in a body that leaves the name out
C16_Witness ==
  /\ last.op = "EditUser"
  /\ last.status = 409
  /\ last.subj = 1
  /\ last.body.name = Undef
  /\ \E u \in store.users : u.sr = 2 /\ u.username = last.body.username

\* user 1 sent their own username again and the row was updated
C16_WitnessOwnUsername ==
  /\ last.op = "EditUser"
  /\ last.status = 200
  /\ last.subj = 1
  /\ \E u \in before.users : u.sr = 1 /\ u.username = last.body.username

-----------------------------------------------------------------------------
(* C17 *)

\* C17 (as claimed): in every state reached on a schema without cascading
\* foreign keys, the user_id of every entity, service, payee and
\* subscription is the sr of exactly one stored user.
C17_OwnersExist ==
  ~store.fkCascade =>
    \A r \in store.entities \cup store.services \cup store.payees
              \cup store.subscriptions :
      Cardinality({u \in store.users : u.sr = r.user_id}) = 1

-----------------------------------------------------------------------------
(* C18 *)

\* C18 (as claimed): a request to any handler, EditUser and DeleteUser
\* included, whose Authorization header is absent or does not begin with the
\* scheme Bearer is answered 401 and leaves the store as it was.
C18_NonBearerSchemeIs401 ==
  (last.op # "none" /\ last.scheme # "Bearer") => (last.status = 401 /\ Unchanged)

-----------------------------------------------------------------------------
(* C19 *)

\* the statuses a response may carry
Statuses == {200, 201, 400, 401, 404, 409, 500}
\* the request passed the handler's check of the Authorization header and
\* jwt.verify
Admitted == IF last.op \in UserOps THEN last.subj # NoId /\ last.scheme # "none"
            ELSE last.bearer

\* C19: every request to every handler ends with a response whose status is
\* 200, 201, 400, 401, 404, 409 or 500, also when request.json() rejects, a
\* statement rejects or a method is called on a value of the wrong type; and
\* a request that was admitted (and, for errors after validation, valid) and
\* during which such an error was raised is answered 500.
C19_EveryErrorIsAnswered500 ==
  last.op # "none" =>
    /\ last.status \in Statuses
    /\ (last.fault = "json" /\ Admitted) => last.status = 500
    /\ (last.fault = "type" /\ Admitted /\ ~last.lacks) => last.status = 500
    /\ (last.fault = "db" /\ Admitted /\ PassesValidation) =>
         (last.status = 500 /\ Unchanged)

\* a complete PUT Entities of an owner during which the first statement fails
C19_Witness ==
  /\ last.op = "PutEntities"
  /\ last.fault = "db"
  /\ last.bearer
  /\ ~last.lacks
  /\ OwnsTarget
  /\ last.status = 500

\* a POST Subscriptions whose body does not parse
C19_WitnessBodyParse ==
  /\ last.op = "PostSubscriptions"
  /\ last.fault = "json"
  /\ last.bearer
  /\ last.status = 500

-----------------------------------------------------------------------------
(* C20 *)

\* the dependents of the addressed row that the first k DELETE statements of
\* its handler's cascade remove
Cascaded(op, s, k) ==
  CASE op = "DeleteEntities" ->
         {r \in s.services : r.entity_id = last.target}
         \cup (IF k >= 2 THEN {r \in s.payees : r.entity_id = last.target} ELSE {})
         \cup (IF k >= 3 THEN {r \in s.subscriptions : r.entity_id = last.target} ELSE {})
    [] op = "DeleteServices" ->
         {r \in s.payees : r.service_id = last.target}
         \cup (IF k >= 2 THEN {r \in s.subscriptions : r.service_id = last.target}
               ELSE {})
    [] op = "DeletePayees" -> {r \in s.subscriptions : r.payee_id = last.target}

\* C20: when a statement of the cascade of a DELETE Entities, Services or
\* Payees fails after at least one DELETE statement succeeded, the handler
\* answers 500, the dependents those statements deleted are gone from the
\* store, and the addressed row is still there.
C20_FailedCascadeStaysPartial ==
  (/\ last.fault = "cascade"
   /\ last.done >= 1
   /\ last.bearer
   /\ OwnsTarget) =>
    /\ last.status = 500
    /\ Cascaded(last.op, store, last.done) = {}
    /\ \E r \in TargetTable(last.op, store) :
         r.id = last.target /\ r.user_id = last.subj

\* a DELETE Entities failed after it had deleted the services and the payees
\* of the entity, whose subscriptions remain
C20_Witness ==
  /\ last.op = "DeleteEntities"
  /\ last.fault = "cascade"
  /\ last.done = 2
  /\ last.status = 500
  /\ Cascaded(last.op, before, 2) # {}
  /\ \E r \in before.payees : r.entity_id = last.target
  /\ \E r \in store.subscriptions : r.entity_id = last.target
  /\ store # before


-----------------------------------------------------------------------------
(* C21 *)

\* the id a DELETE in flight addresses
DeleteTarget(q) == IF q.op \in {"DeleteEntities", "DeleteEntitiesSingle"}
                   THEN q.body.entity_id ELSE q.body.id
\* the rows of s that reference row id of the table op deletes from
Referencing(s, op, id) ==
  CASE op \in {"DeleteEntities", "DeleteEntitiesSingle"} ->
         {r \in s.services \cup s.payees \cup s.subscriptions : r.entity_id = id}
    [] op \in {"DeleteServices", "DeleteServicesSingle"} ->
         {r \in s.payees \cup s.subscriptions : r.service_id = id}
    [] op = "DeletePayees" -> {r \in s.subscriptions : r.payee_id = id}
\* the DELETE requests of the entities, services and payees routes
CascadingDeletes == {"DeleteEntities", "DeleteEntitiesSingle", "DeleteServices",
                     "DeleteServicesSingle", "DeletePayees"}

C21_WitnessDone ==
  \E p \in DOMAIN pending :
    LET q == pending[p]
    IN /\ q.op \in CascadingDeletes /\ q.pc = "done" /\ q.status = 200
       /\ Referencing(before, q.op, DeleteTarget(q)) # {}
       /\ DeleteTarget(q) \notin Ids(TargetTable(q.op, store))


-----------------------------------------------------------------------------
(* C22 *)

\* the columns a PUT of the entities and of the services route writes
WrittenColumns(op) ==
  IF op = "PutEntities"
  THEN {"entity_name", "entity_desc", "entity_short_desc", "category"}
  ELSE {"service_name", "service_desc", "min_duration", "amount", "category"}
\* the value request q sends for column f: the body's value (the category in
\* lower case) or, when the body's value is falsy, the value of the row q read
SentValue(q, f) ==
  LET ex == CHOOSE x \in q.existing : TRUE
  IN IF ~Truthy(q.body[f]) THEN ex[f]
     ELSE IF f = "category" THEN ToLower(q.body[f]) ELSE q.body[f]
\* requests p and r are PUTs of the same owner on the same row, both answered
\* 200, and the UPDATE of p ran after the UPDATE of r
WroteLast(p, r) ==
  /\ pending[p].op \in {"PutEntities", "PutServices"}
  /\ pending[r].op = pending[p].op
  /\ pending[r].subj = pending[p].subj
  /\ pending[r].body.id = pending[p].body.id
  /\ pending[p].status = 200 /\ pending[r].status = 200
  /\ pending[p].stamp > pending[r].stamp

\* C22: after two PUTs of one owner on one entity or service row, each column
\* of the row holds what the PUT whose UPDATE ran last sent: its body's value,
\* or the value it had read before when its body left the column out, whatever
\* the other PUT wrote in between.
C22_LastUpdateWins ==
  \A p \in DOMAIN pending, r \in DOMAIN pending :
    WroteLast(p, r) =>
      \A row \in TargetTable(pending[p].op, store) :
        row.id = pending[p].body.id =>
          \A f \in WrittenColumns(pending[p].op) : row[f] = SentValue(pending[p], f)

\* a lost update: the last writer read the row before the other PUT changed
\* a column, left that column out, and wrote the value it had read back
C22_Witness ==
  \E p \in DOMAIN pending, r \in DOMAIN pending :
    /\ WroteLast(p, r)
    /\ \E f \in WrittenColumns(pending[p].op) :
         /\ ~Truthy(pending[p].body[f])
         /\ Truthy(pending[r].body[f])
         /\ SentValue(pending[p], f) # SentValue(pending[r], f)
         /\ \E row \in TargetTable(pending[p].op, store) :
              row.id = pending[p].body.id /\ row[f] = SentValue(pending[p], f)


-----------------------------------------------------------------------------
(* C23 *)

\* the rows of s that bear name n in the column a body's field f names
RowsNamed(s, f, n) ==
  CASE f = "entity_name" -> {e \in s.entities : e.entity_name = n}
    [] f = "service_name" -> {e \in s.services : e.service_name = n}
    [] f = "payee_name" -> {e \in s.payees : e.payee_name = n}
\* the request resolves a name that only rows of other users bear
NamesAnotherUsersRow ==
  \E f \in ResolvedNames(last.op) :
    /\ RowsNamed(before, f, last.body[f]) # {}
    /\ \A r \in RowsNamed(before, f, last.body[f]) : r.user_id # last.subj
\* the rows the request added to the table its route manages
Added ==
  CASE last.op = "PostServices" -> store.services \ before.services
    [] last.op = "PostPayees" -> store.payees \ before.payees
    [] last.op = "PostSubscriptions" -> store.subscriptions \ before.subscriptions
NamePosts == {"PostServices", "PostPayees", "PostSubscriptions"}

\* C23: a valid POST of a service, a payee or a subscription whose names are
\* all stored is answered 201 even when a name is borne only by a row of
\* another user, and the created row is owned by the requester and holds the
\* id of a row of that name.
C23_NamesResolveAcrossUsers ==
  (/\ last.op \in NamePosts
   /\ last.bearer /\ PassesValidation /\ ~last.unknown
   /\ NamesAnotherUsersRow)
  => /\ last.status = 201
     /\ \E row \in Added :
          /\ Added = {row}
          /\ row.user_id = last.subj
          /\ \A f \in ResolvedNames(last.op) :
               row[Column(last.op, f)] \in Ids(RowsNamed(before, f, last.body[f]))

C23_Witness ==
  /\ last.op = "PostServices" /\ last.status = 201
  /\ NamesAnotherUsersRow
  /\ \E row \in Added : \E e \in before.entities :
       e.id = row.entity_id /\ e.user_id # row.user_id

\* the same for a payee that names another user's service
C23_WitnessPayee ==
  /\ last.op = "PostPayees" /\ last.status = 201
  /\ \E row \in Added : \E e \in before.services :
       e.id = row.service_id /\ e.user_id # row.user_id


-----------------------------------------------------------------------------
(* C24 *)

\* the status of the earliest stage the request fails, 0 when it reaches the
\* statements that write
EarliestFailure ==
  IF ~last.bearer THEN 401
  ELSE IF ~PassesValidation THEN 400
  ELSE IF last.unknown THEN 404
  ELSE 0

\* C24 (as claimed): a POST or PUT that resolves names is answered by the
\* earliest stage it fails, authentication (401) before validation (400)
\* before name resolution (404), and a request refused by one of these stages
\* leaves the store as it was.
C24_EarliestFailingStageAnswers ==
  (last.op \in NameOps /\ EarliestFailure # 0)
  => last.status = EarliestFailure /\ Unchanged


-----------------------------------------------------------------------------
(* C25 *)

\* C25 (as claimed): no two users bear the same username, whatever the
\* order in which the statements of the EditUser requests in flight run.
C25_UsernamesStayUnique ==
  \A u \in store.users, v \in store.users : u.username = v.username => u.sr = v.sr


-----------------------------------------------------------------------------
(* C26 *)

\* the rows of old that are still stored in new under another owner
Reowned(old, new) == {r \in old : \E x \in new : x.id = r.id /\ x.user_id # r.user_id}

\* C26 (as claimed): no request changes the owner of a stored row: a row of
\* any table that a request leaves in place has the user_id it had before.
C26_OwnerNeverChanges ==
  /\ Reowned(before.entities, store.entities) = {}
  /\ Reowned(before.services, store.services) = {}
  /\ Reowned(before.payees, store.payees) = {}
  /\ Reowned(before.subscriptions, store.subscriptions) = {}


-----------------------------------------------------------------------------
(* C27 *)

\* the rows request q created that are still stored
CreatedRows(q) ==
  {r \in (CASE q.op = "PostServices" -> store.services
            [] q.op = "PostPayees" -> store.payees
            [] q.op = "PostSubscriptions" -> store.subscriptions
            [] OTHER -> {}) : r.id \in q.created}

\* C27 (as claimed): once a POST of a service, payee or subscription and a
\* concurrent DELETE of a row it names have both been answered, the created
\* row, if it is stored, does not reference the deleted row.
C27_CreatedRowReferencesNoDeletedRow ==
  \A p \in DOMAIN pending, r \in DOMAIN pending :
    (/\ pending[p].op \in NamePosts /\ pending[p].status = 201
     /\ pending[r].op \in CascadingDeletes /\ pending[r].status = 200)
    => CreatedRows(pending[p]) \cap
         Referencing(store, pending[r].op, DeleteTarget(pending[r])) = {}


-----------------------------------------------------------------------------
(* C28 *)

\* the statuses with which a handler refuses a request
Refusals == {400, 401, 404, 409}

\* C28: a request answered 400, 401, 404 or 409 leaves every table as it
\* was when the request arrived.
C28_RefusedRequestChangesNothing ==
  last.status \in Refusals => Unchanged

\* a username conflict, refused with 409 when the UPDATE would have changed
\* the user's row
C28_Witness ==
  /\ last.op = "EditUser" /\ last.status = 409
  /\ \E u \in store.users : u.sr = last.header.token.id
                            /\ u.username # last.body.username

\* a PUT of another user's row refused with 404 when the body would have
\* changed the row
C28_WitnessNotFound ==
  /\ last.op = "PutEntities" /\ last.status = 404
  /\ \E r \in store.entities :
       r.id = last.target /\ r.user_id # last.subj /\ r.entity_name # last.body.entity_name


-----------------------------------------------------------------------------
(* C29 *)

\* no two rows of s bear the same entity, service or payee name
NamesUnique(s) ==
  /\ \A x \in s.entities, y \in s.entities : x.entity_name = y.entity_name => x.id = y.id
  /\ \A x \in s.services, y \in s.services : x.service_name = y.service_name => x.id = y.id
  /\ \A x \in s.payees, y \in s.payees : x.payee_name = y.payee_name => x.id = y.id

\* C29 (as claimed): a name identifies at most one row: no request makes two
\* entities, two services or two payees bear the same name.
C29_NamesStayUnique ==
  NamesUnique(before) => NamesUnique(store)


-----------------------------------------------------------------------------
(* C30 *)

\* the handler of the other file for the same route and method
Counterpart(op) ==
  CASE op = "DeleteEntities" -> "DeleteEntitiesSingle"
    [] op = "DeleteEntitiesSingle" -> "DeleteEntities"
    [] op = "DeleteServices" -> "DeleteServicesSingle"
    [] op = "DeleteServicesSingle" -> "DeleteServices"

\* the DELETE handlers that exist in both forms
TwiceWrittenDeletes == {"DeleteEntities", "DeleteEntitiesSingle",
                        "DeleteServices", "DeleteServicesSingle"}

\* C30: on a schema whose foreign keys are declared ON DELETE CASCADE, the
\* single-statement DELETE handlers of entities and services and the handlers
\* that delete the dependents themselves answer every request alike: the
\* status and the store one of them leaves are a status and a store the
\* other leaves for the same request on the same store.
C30_SingleStatementEqualsManualCascade ==
  (last.op \in TwiceWrittenDeletes /\ before.fkCascade)
  => /\ \E r \in Handle(Counterpart(last.op), before, last.header, last.body) :
          r.status = last.status /\ r.store = store
     /\ \A r \in Handle(Counterpart(last.op), before, last.header, last.body) :
          r.status = last.status /\ r.store = store

\* the single statement removed an entity together with rows of all three
\* dependent tables
C30_Witness ==
  /\ last.op = "DeleteEntitiesSingle" /\ last.status = 200
  /\ before.services # store.services
  /\ before.payees # store.payees
  /\ before.subscriptions # store.subscriptions

\* the manual cascade of a service on the same schema
C30_WitnessManual ==
  /\ last.op = "DeleteServices" /\ last.status = 200 /\ before.fkCascade
  /\ before.payees # store.payees
  /\ before.subscriptions # store.subscriptions

====
